---- MODULE Spec2Model ----
(***************************************************************************)
(* Highlight selection and timeline fusion of highlightAI                  *)
(* (src/auth-upload/lambdas/consolidation/handler.py), and the status of   *)
(* a video across the Lambdas of src/auth-upload/lambdas that write it.    *)
(*                                                                         *)
(* Times are integers counting ticks of 0.1 s (the finest grain of the     *)
(* constants of the code: 0.5 s guard, 0.3 s pad, 1.5 s / 2.5 s windows);  *)
(* scores are integers counting hundredths (ten-thousandths for the        *)
(* product weight x confidence that extract_audio_highlights computes).    *)
(* Python floats are modelled as exact numbers on that grid.               *)
(* A candidate / key moment is the record                                  *)
(* [start, end, score]; the provenance fields ('type', 'labels') are never *)
(* read by the code modelled here and are left out.                        *)
(***************************************************************************)
EXTENDS Integers, Sequences, FiniteSets, Bags, TLC

VARIABLES
    \* inputs of one run
    video_duration_sec, audio_highlights, visual_highlights, items,
    \* merge_highlights, one loop iteration at a time
    m_pc, all_h, idx, selected, total_duration, merged, remerged,
    \* json_to_srt, one moment / one mapped word at a time
    srt_pc, srt_moments, words, moment_idx, current_output_time, mapped_words,
    word_idx, srt_entries, entry_idx, current_chunk, chunk_start, srt_output,
    \* consolidation_handler
    pc, key_moments, fallbacks, srt_content, srt_key, subtitle_objects, job, video_record,
    \* the invocation: event, bound name, polling loop, writes, outcome, call counts
    event, video_id, polls, slept, JobStatus, writes, exc, raised, result, calls,
    \* the extractors: label detections, position in the transcript, list being built
    rekognition_results, x_pc, x_i, highlights, x_raised,
    \* the pipeline of one video: its item of the table, the messages and events
    \* awaiting delivery, those ever sent, the re-deliveries so far, the jobs
    video_item, pending, sent, redeliveries, transcription_job, mediaconvert_jobs

inputVars == <<video_duration_sec, audio_highlights, visual_highlights, items>>
mergeVars == <<m_pc, all_h, idx, selected, total_duration, merged, remerged>>
srtVars == <<srt_pc, srt_moments, words, moment_idx, current_output_time, mapped_words,
             word_idx, srt_entries, entry_idx, current_chunk, chunk_start, srt_output>>
handlerVars == <<pc, key_moments, fallbacks, srt_content, srt_key, subtitle_objects, job,
                 video_record>>
invocationVars == <<event, video_id, polls, slept, JobStatus, writes, exc, raised, result,
                    calls>>
extractVars == <<rekognition_results, x_pc, x_i, highlights, x_raised>>
\* what the steps of one loop, and the steps of the handler, leave alone
pipelineVars == <<video_item, pending, sent, redeliveries, transcription_job,
                  mediaconvert_jobs>>
stageVars == <<invocationVars, extractVars, pipelineVars>>
loopVars == <<mergeVars, srtVars, extractVars, pipelineVars>>
vars == <<inputVars, mergeVars, srtVars, handlerVars, invocationVars, extractVars,
          pipelineVars>>

----------------------------------------------------------------------------
(* Units and the constants of the code *)

Sec(n) == 10 * n                 \* n seconds, in ticks
Abs(x) == IF x < 0 THEN -x ELSE x
Min(a, b) == IF a <= b THEN a ELSE b
Max(a, b) == IF a >= b THEN a ELSE b

OVERLAP_GUARD == Sec(1) \div 2   \* 0.5 s            (handler.py:412)
HARD_CEILING == Sec(22)          \* 22 s             (handler.py:419)
SOFT_FLOOR == Sec(15)            \* 15 s             (handler.py:423, 129)
FALLBACK_CLIP == Sec(5)          \* 5 s              (handler.py:434, 439, 443)
FALLBACK_MIN_DURATION == Sec(15) \* duration > 15    (handler.py:436)
FALLBACK_SCORE == 50             \* 0.5              (handler.py:434)
CHUNK_WORDS == 5                 \* 5 words          (handler.py:676)
CHUNK_SPAN == Sec(3)             \* 3.0 s            (handler.py:676)

None == [none |-> TRUE]

RECURSIVE SumDur(_)
SumDur(s) == IF s = <<>> THEN 0 ELSE (Head(s).end - Head(s).start) + SumDur(Tail(s))

SeqsUpTo(S, n) == UNION {[1..k -> S] : k \in 0..n}
Range(s) == {s[i] : i \in 1..Len(s)}

----------------------------------------------------------------------------
(* merge_highlights (handler.py:391-427) *)

\* twice the distance of a start to video_duration / 2 (no division needed)
Dist2(h, D) == Abs(2 * h.start - D)

\* key(a) > key(b) for key = (score, -abs(start - midpoint))
KeyGreater(a, b, D) ==
    \/ a.score > b.score
    \/ a.score = b.score /\ Dist2(a, D) < Dist2(b, D)

\* list.sort(key=..., reverse=True) is stable: x goes behind every element
\* whose key is not smaller, elements are inserted in input order
RECURSIVE InsertDesc(_, _, _)
InsertDesc(x, s, D) ==
    IF s = <<>> THEN <<x>>
    ELSE IF KeyGreater(x, Head(s), D) THEN <<x>> \o s
    ELSE <<Head(s)>> \o InsertDesc(x, Tail(s), D)

MutSortDesc(s, D) == s

RECURSIVE SortDesc(_, _)
SortDesc(s, D) ==
    IF s = <<>> THEN <<>>
    ELSE InsertDesc(s[Len(s)], SortDesc(SubSeq(s, 1, Len(s) - 1), D), D)

\* the inner loop over the already selected moments
MutIsOverlapping(h, sel) ==
    /\ sel # <<>>
    /\ h.start < sel[Len(sel)].end - OVERLAP_GUARD
    /\ h.end > sel[Len(sel)].start + OVERLAP_GUARD

is_overlapping(h, sel) ==
    \E i \in 1..Len(sel) :
        /\ h.start < sel[i].end - OVERLAP_GUARD
        /\ h.end > sel[i].start + OVERLAP_GUARD

\* one iteration of the greedy loop on candidate h; stopped = the break
MutConsider(st, h) ==
    IF is_overlapping(h, st.selected) THEN st
    ELSE IF st.total_duration + (h.end - h.start) <= HARD_CEILING
         THEN [selected |-> Append(st.selected, h),
               total_duration |-> st.total_duration + (h.end - h.start),
               stopped |-> FALSE]
         ELSE st

Consider(st, h) ==
    IF st.stopped \/ is_overlapping(h, st.selected) THEN st
    ELSE LET dur == h.end - h.start
             fits == st.total_duration + dur <= HARD_CEILING
             tot == IF fits THEN st.total_duration + dur ELSE st.total_duration
         IN [selected |-> IF fits THEN Append(st.selected, h) ELSE st.selected,
             total_duration |-> tot,
             stopped |-> tot >= SOFT_FLOOR]

RECURSIVE GreedySelect(_, _)
GreedySelect(st, hs) ==
    IF hs = <<>> THEN st ELSE GreedySelect(Consider(st, Head(hs)), Tail(hs))

\* sorted(selected, key=start): stable, ascending
RECURSIVE InsertByStart(_, _)
InsertByStart(x, s) ==
    IF s = <<>> THEN <<x>>
    ELSE IF x.start < Head(s).start THEN <<x>> \o s
    ELSE <<Head(s)>> \o InsertByStart(x, Tail(s))

MutSortByStart(s) == s

RECURSIVE SortByStart(_)
SortByStart(s) ==
    IF s = <<>> THEN <<>>
    ELSE InsertByStart(s[Len(s)], SortByStart(SubSeq(s, 1, Len(s) - 1)))

EmptySelection == [selected |-> <<>>, total_duration |-> 0, stopped |-> FALSE]

merge_highlights(audio, visual, D) ==
    SortByStart(GreedySelect(EmptySelection, SortDesc(audio \o visual, D)).selected)

----------------------------------------------------------------------------
(* generate_fallback_highlights (handler.py:429-448) *)

Clip(s, e) == [start |-> s, end |-> e, score |-> FALLBACK_SCORE]

MutGenerateFallback(duration) ==
    <<Clip(0, Min(FALLBACK_CLIP, duration))>>
    \o (IF duration >= FALLBACK_MIN_DURATION
        THEN <<Clip(duration \div 2, Min(duration \div 2 + FALLBACK_CLIP, duration))>>
             \o (IF Max(FALLBACK_CLIP, duration - FALLBACK_CLIP) < duration
                 THEN <<Clip(Max(FALLBACK_CLIP, duration - FALLBACK_CLIP), duration)>>
                 ELSE <<>>)
        ELSE <<>>)

MutFallbackNoOutro(duration) ==
    <<Clip(0, Min(FALLBACK_CLIP, duration))>>
    \o (IF duration > FALLBACK_MIN_DURATION
        THEN <<Clip(duration \div 2, Min(duration \div 2 + FALLBACK_CLIP, duration))>>
        ELSE <<>>)

\* duration / 2 is exact: the durations of the model are even numbers of ticks
generate_fallback_highlights(duration) ==
    LET intro == <<Clip(0, Min(FALLBACK_CLIP, duration))>>
        mid == duration \div 2
        start_outro == Max(FALLBACK_CLIP, duration - FALLBACK_CLIP)
    IN IF duration > FALLBACK_MIN_DURATION
       THEN intro \o <<Clip(mid, Min(mid + FALLBACK_CLIP, duration))>>
                  \o (IF start_outro < duration
                      THEN <<Clip(start_outro, duration)>> ELSE <<>>)
       ELSE intro

----------------------------------------------------------------------------
(* the clamp loop of consolidation_handler (handler.py:109-117) *)

RECURSIVE MutClampMoments(_, _)
MutClampMoments(ms, D) ==
    IF ms = <<>> THEN <<>>
    ELSE LET m == Head(ms)
             rest == MutClampMoments(Tail(ms), D)
         IN IF m.start >= D THEN rest
            ELSE IF m.end > m.start THEN <<m>> \o rest ELSE rest

RECURSIVE ClampMoments(_, _)
ClampMoments(ms, D) ==
    IF ms = <<>> THEN <<>>
    ELSE LET m == Head(ms)
             c == [m EXCEPT !.end = Min(m.end, D)]
             rest == ClampMoments(Tail(ms), D)
         IN IF m.start >= D THEN rest
            ELSE IF c.end > c.start THEN <<c>> \o rest ELSE rest

----------------------------------------------------------------------------
(* seconds_to_timecode, format_srt_time (handler.py:590-603) *)

\* HH:MM:SS:FF with the frames forced to 00: the fraction of a second is cut
seconds_to_timecode(t) ==
    [hh |-> t \div Sec(3600), mm |-> (t % Sec(3600)) \div Sec(60),
     ss |-> (t % Sec(60)) \div Sec(1), ff |-> 0]

\* HH:MM:SS,mmm
format_srt_time(t) ==
    [hh |-> t \div Sec(3600), mm |-> (t % Sec(3600)) \div Sec(60),
     ss |-> (t % Sec(60)) \div Sec(1), mmm |-> ((t * 1000) \div Sec(1)) % 1000]

----------------------------------------------------------------------------
(* json_to_srt (handler.py:605-685) *)
\* A transcript item is [type, timed, start_time, end_time, content]; timed = FALSE
\* stands for an item without 'start_time' (punctuation).

RECURSIVE BuildWords(_)
BuildWords(its) ==
    IF its = <<>> THEN <<>>
    ELSE LET it == Head(its)
         IN (IF it.type = "pronunciation" /\ it.timed
             THEN <<[start |-> it.start_time, end |-> it.end_time, text |-> it.content]>>
             ELSE <<>>) \o BuildWords(Tail(its))

\* the words of one moment, on the edited timeline (handler.py:640-653)
RECURSIVE MutMapMoment(_, _, _)
MutMapMoment(ws, moment, cursor) ==
    IF ws = <<>> THEN <<>>
    ELSE LET w == Head(ws)
         IN (IF moment.start <= w.start /\ w.start < moment.end
             THEN <<[start |-> cursor + (w.start - moment.end),
                     end |-> cursor + (w.end - moment.end),
                     text |-> w.text]>>
             ELSE <<>>) \o MutMapMoment(Tail(ws), moment, cursor)

RECURSIVE MapMoment(_, _, _)
MapMoment(ws, moment, cursor) ==
    IF ws = <<>> THEN <<>>
    ELSE LET w == Head(ws)
         IN (IF moment.start <= w.start /\ w.start < moment.end
             THEN <<[start |-> cursor + (w.start - moment.start),
                     end |-> cursor + (w.end - moment.start),
                     text |-> w.text]>>
             ELSE <<>>) \o MapMoment(Tail(ws), moment, cursor)

\* the outer loop (handler.py:635-656)
RECURSIVE MapWords(_, _, _)
MapWords(ws, moments, cursor) ==
    IF moments = <<>> THEN <<>>
    ELSE LET m == Head(moments)
         IN MapMoment(ws, m, cursor) \o MapWords(ws, Tail(moments), cursor + (m.end - m.start))

\* one iteration of the chunk loop (handler.py:668-681); `last' is mapped_words[-1],
\* compared by value as Python compares dicts
EmptyChunks == [entries |-> <<>>, entry_idx |-> 1, current_chunk |-> <<>>, chunk_start |-> None]

\* the chunk loop without the 3.0 s condition
MutChunkWord(st, word, last) ==
    LET cs == IF st.current_chunk = <<>> THEN word.start ELSE st.chunk_start
        chunk == Append(st.current_chunk, word.text)
    IN IF Len(chunk) >= CHUNK_WORDS \/ word = last
       THEN [entries |-> Append(st.entries,
                                [index |-> st.entry_idx,
                                 start |-> format_srt_time(cs),
                                 end |-> format_srt_time(word.end),
                                 text |-> chunk]),
             entry_idx |-> st.entry_idx + 1,
             current_chunk |-> <<>>,
             chunk_start |-> None]
       ELSE [st EXCEPT !.current_chunk = chunk, !.chunk_start = cs]

ChunkWord(st, word, last) ==
    LET cs == IF st.current_chunk = <<>> THEN word.start ELSE st.chunk_start
        chunk == Append(st.current_chunk, word.text)
        chunk_duration == word.end - cs
    IN IF Len(chunk) >= CHUNK_WORDS \/ chunk_duration >= CHUNK_SPAN \/ word = last
       THEN [entries |-> Append(st.entries,
                                [index |-> st.entry_idx,
                                 start |-> format_srt_time(cs),
                                 end |-> format_srt_time(word.end),
                                 text |-> chunk]),
             entry_idx |-> st.entry_idx + 1,
             current_chunk |-> <<>>,
             chunk_start |-> None]
       ELSE [st EXCEPT !.current_chunk = chunk, !.chunk_start = cs]

RECURSIVE ChunkWords(_, _, _)
ChunkWords(st, ws, last) ==
    IF ws = <<>> THEN st ELSE ChunkWords(ChunkWord(st, Head(ws), last), Tail(ws), last)

\* None, or the list of the SRT entries ("\n".join(srt_entries))
json_to_srt(its, moments) ==
    IF its = <<>> THEN None
    ELSE LET ws == BuildWords(its)
         IN IF ws = <<>> THEN None
            ELSE LET mw == MapWords(ws, moments, 0)
                 IN IF mw = <<>> THEN None
                    ELSE [none |-> FALSE,
                          entries |-> ChunkWords(EmptyChunks, mw, mw[Len(mw)]).entries]

----------------------------------------------------------------------------
(* create_mediaconvert_job (handler.py:499-588): the clip ranges and the caption
   parts of the job settings *)

MutCreateJob(moments, subtitle_key) ==
    [InputClippings |-> [i \in 1..Len(moments) |->
                            [StartTimecode |-> seconds_to_timecode(moments[i].start),
                             EndTimecode |-> seconds_to_timecode(moments[i].end)]],
     CaptionSelectors |-> {[name |-> "Captions", SourceFile |-> subtitle_key]},
     CaptionDescriptions |-> <<[CaptionSelectorName |-> "Captions",
                                DestinationType |-> "BURN_IN"]>>]

create_mediaconvert_job(moments, subtitle_key) ==
    [InputClippings |-> [i \in 1..Len(moments) |->
                            [StartTimecode |-> seconds_to_timecode(moments[i].start),
                             EndTimecode |-> seconds_to_timecode(moments[i].end)]],
     CaptionSelectors |-> IF subtitle_key # "None"
                          THEN {[name |-> "Captions", SourceFile |-> subtitle_key]}
                          ELSE {},
     CaptionDescriptions |-> IF subtitle_key # "None"
                             THEN <<[CaptionSelectorName |-> "Captions",
                                     DestinationType |-> "BURN_IN"]>>
                             ELSE <<>>]

----------------------------------------------------------------------------
(* Inputs of the model *)

MaxAudio == 2      \* longest audio candidate list
MaxVisual == 1     \* longest visual candidate list
MaxWords == 3      \* most pronunciation items of a transcript

\* VideoMetadata.DurationMillis / 1000 (handler.py:96-97): 8.9, 10, 15, 16, 20, 40 s
Durations == {Sec(9) - 1, Sec(10), Sec(15), Sec(16), Sec(20), Sec(40)}

Cand(s, e, sc) == [start |-> s, end |-> e, score |-> sc]

\* candidates as extract_audio_highlights builds them (handler.py:325-330):
\* arbitrary sentence-snapped extents, 0 <= start < end, score = weight * confidence
AudioPool ==
    { Cand(100, 250, 50),     \* 10.0 - 25.0
      Cand(300, 330, 50),     \* 30.0 - 33.0
      Cand(20, 60, 90),       \*  2.0 -  6.0
      Cand(0, 230, 80),       \*  0.0 - 23.0
      Cand(120, 200, 70),     \* 12.0 - 20.0
      Cand(0, 50, 60),        \*  0.0 -  5.0
      Cand(47, 90, 85) }      \*  4.7 -  9.0 (a sentence 5.0 - 8.7 and the 0.3 s pad)

\* candidates as extract_visual_highlights builds them (handler.py:380-386):
\* [ts - 1.5, ts + 2.5] for a whole second ts, score > 0.4
VisualPool ==
    { Cand(15, 55, 100),      \* ts = 3
      Cand(85, 125, 45),      \* ts = 10
      Cand(295, 335, 65) }    \* ts = 31

\* the transcript: pronunciation items in chronological order, start <= end,
\* and punctuation items, which carry no timestamp
Word(s, e, c) == [type |-> "pronunciation", timed |-> TRUE,
                  start_time |-> s, end_time |-> e, content |-> c]
Punct(c) == [type |-> "punctuation", timed |-> FALSE,
             start_time |-> 0, end_time |-> 0, content |-> c]

WordSlots ==
    << Word(10, 15, "now"),       \*  1.0 -  1.5
       Word(48, 56, "what"),      \*  4.8 -  5.6
       Word(90, 94, "a"),         \*  9.0 -  9.4
       Word(122, 127, "goal"),    \* 12.2 - 12.7
       Word(260, 266, "yes"),     \* 26.0 - 26.6
       Word(410, 415, "now") >>   \* 41.0 - 41.5

RECURSIVE PickSlots(_, _)
PickSlots(i, keep) ==
    IF i > Len(WordSlots) THEN <<>>
    ELSE (IF i \in keep THEN <<WordSlots[i]>> ELSE <<>>) \o PickSlots(i + 1, keep)

Transcripts ==
    LET spoken == {PickSlots(1, keep) : keep \in {k \in SUBSET (1..Len(WordSlots)) :
                                                      Cardinality(k) <= MaxWords}}
    IN spoken \cup {w \o <<Punct(".")>> : w \in spoken}

\* a sentence spoken without a pause, 12.0 - 14.7: seven words 0.4 s apart
DenseWords ==
    << Word(120, 123, "and"), Word(124, 127, "he"), Word(128, 131, "shoots"),
       Word(132, 135, "he"), Word(136, 139, "scores"), Word(140, 143, "what"),
       Word(144, 147, "a") >>

\* its first five, six and seven words
DenseTranscripts == {SubSeq(DenseWords, 1, n) : n \in (CHUNK_WORDS)..Len(DenseWords)}

\* the lists merge_highlights returns on the candidate lists of the model
FuserOutputs ==
    {merge_highlights(a, v, D) : a \in SeqsUpTo(AudioPool, MaxAudio),
                                 v \in SeqsUpTo(VisualPool, MaxVisual),
                                 D \in Durations}

IdleMerge ==
    /\ m_pc = "idle"
    /\ all_h = <<>>
    /\ idx = 0
    /\ selected = <<>>
    /\ total_duration = 0
    /\ merged = <<>>
    /\ remerged = <<>>

IdleSrt ==
    /\ srt_pc = "idle"
    /\ srt_moments = <<>>
    /\ words = <<>>
    /\ moment_idx = 0
    /\ current_output_time = 0
    /\ mapped_words = <<>>
    /\ word_idx = 0
    /\ srt_entries = <<>>
    /\ entry_idx = 1
    /\ current_chunk = <<>>
    /\ chunk_start = None
    /\ srt_output = None

IdlePipeline ==
    /\ video_item = [status |-> "ANALYZING", mediaConvertJobId |-> 0]
    /\ pending = EmptyBag
    /\ sent = {}
    /\ redeliveries = 0
    /\ transcription_job = "none"
    /\ mediaconvert_jobs = <<>>

IdleExtract ==
    /\ rekognition_results = <<>>
    /\ x_pc = "idle"
    /\ x_i = 0
    /\ highlights = <<>>
    /\ x_raised = FALSE

IdleInvocation ==
    /\ video_id = "unbound"
    /\ polls = 0
    /\ slept = 0
    /\ JobStatus = "None"
    /\ writes = <<>>
    /\ exc = "None"
    /\ raised = "None"
    /\ result = None
    /\ calls = [fallback |-> 0, fuser |-> 0]

IdleHandler ==
    /\ pc = "idle"
    /\ key_moments = <<>>
    /\ fallbacks = <<>>
    /\ srt_content = None
    /\ srt_key = "None"
    /\ subtitle_objects = {}
    /\ job = None
    /\ video_record = [status |-> "ANALYZING"]
    /\ event = None
    /\ IdleInvocation

----------------------------------------------------------------------------
(* merge_highlights step by step, then applied to its own result as
   consolidation_handler does (handler.py:125) *)

InitMerge ==
    /\ video_duration_sec \in Durations
    /\ audio_highlights \in SeqsUpTo(AudioPool, MaxAudio)
    /\ visual_highlights \in SeqsUpTo(VisualPool, MaxVisual)
    /\ items = <<>>
    /\ IdleMerge /\ IdleSrt /\ IdleHandler /\ IdleExtract /\ IdlePipeline

\* handler.py:393-402
MergeSort ==
    /\ m_pc = "idle"
    /\ all_h' = SortDesc(audio_highlights \o visual_highlights, video_duration_sec)
    /\ idx' = 1
    /\ selected' = <<>>
    /\ total_duration' = 0
    /\ m_pc' = "loop"
    /\ UNCHANGED <<merged, remerged, inputVars, srtVars, handlerVars, stageVars>>

\* handler.py:405-424, one candidate
MergeStep ==
    /\ m_pc = "loop"
    /\ idx <= Len(all_h)
    /\ LET st == Consider([selected |-> selected, total_duration |-> total_duration,
                           stopped |-> FALSE], all_h[idx])
       IN /\ selected' = st.selected
          /\ total_duration' = st.total_duration
          /\ m_pc' = IF st.stopped THEN "break" ELSE "loop"
    /\ idx' = idx + 1
    /\ UNCHANGED <<all_h, merged, remerged, inputVars, srtVars, handlerVars, stageVars>>

\* handler.py:426-427
MergeReturn ==
    /\ \/ m_pc = "break"
       \/ m_pc = "loop" /\ idx > Len(all_h)
    /\ merged' = SortByStart(selected)
    /\ m_pc' = "returned"
    /\ UNCHANGED <<all_h, idx, selected, total_duration, remerged,
                   inputVars, srtVars, handlerVars, stageVars>>

\* handler.py:125: merge_highlights(key_moments, [], video_duration_sec)
MergeAgain ==
    /\ m_pc = "returned"
    /\ remerged' = merge_highlights(merged, <<>>, video_duration_sec)
    /\ m_pc' = "again"
    /\ UNCHANGED <<all_h, idx, selected, total_duration, merged,
                   inputVars, srtVars, handlerVars, stageVars>>

NextMerge == MergeSort \/ MergeStep \/ MergeReturn \/ MergeAgain

SpecMerge == InitMerge /\ [][NextMerge]_vars

\* the loop and the one-shot operator compute the same list
MergeLoopIsOperator ==
    m_pc \in {"returned", "again"} =>
        merged = merge_highlights(audio_highlights, visual_highlights, video_duration_sec)

----------------------------------------------------------------------------
(* Properties of merge_highlights, under SpecMerge *)

\* the guard overlap predicate, on two intervals
GuardOverlap(a, b) == a.start < b.end - OVERLAP_GUARD /\ a.end > b.start + OVERLAP_GUARD

PairwiseDisjoint(ms) ==
    \A i, j \in 1..Len(ms) : i # j => ~GuardOverlap(ms[i], ms[j])

MergeReturned == m_pc \in {"returned", "again"}

\* C1: no two distinct intervals of the list merge_highlights returns satisfy the
\* guard overlap predicate (a.start < b.end - 0.5 and a.end > b.start + 0.5).
C1_NoGuardOverlap == MergeReturned => PairwiseDisjoint(merged)

\* a run that returned two or more intervals after rejecting a candidate for overlap
C1_Witness ==
    /\ m_pc = "returned"
    /\ Len(merged) >= 2
    /\ \E k \in 1..Len(all_h) :
          /\ all_h[k] \notin Range(merged)
          /\ \E i \in 1..Len(merged) : GuardOverlap(all_h[k], merged[i])

\* C2: the running total never exceeds 22 s, a candidate is accepted only while
\* the running total is below 15 s, and the returned intervals sum to at most 22 s.
C2_DurationCeiling ==
    /\ [](total_duration <= HARD_CEILING)
    /\ [](MergeReturned => SumDur(merged) <= HARD_CEILING)
    /\ [][selected' # selected =>
             /\ total_duration < SOFT_FLOOR
             /\ total_duration' <= HARD_CEILING
             /\ total_duration' = SumDur(selected')]_vars

\* the loop broke past the soft floor with a candidate left unconsidered
C2_Witness ==
    /\ m_pc = "break"
    /\ idx <= Len(all_h)
    /\ Len(selected) >= 2
    /\ total_duration > SOFT_FLOOR

\* C4: merge_highlights applied to a list it returned (pairwise non-overlapping,
\* at most 22 s), with an empty second input and the same duration, returns the
\* same set of intervals.
C4_IdempotentRefusion ==
    (m_pc = "again" /\ PairwiseDisjoint(merged) /\ SumDur(merged) <= HARD_CEILING)
        => Range(remerged) = Range(merged)

\* C6: the list merge_highlights returns is sorted ascending by start.
C6_SortedByStart ==
    MergeReturned => \A i \in 1..(Len(merged) - 1) : merged[i].start <= merged[i + 1].start

\* a run whose selection order is not the playback order
C6_Witness ==
    /\ m_pc = "returned"
    /\ Len(merged) >= 2
    /\ selected # merged

\* a is not behind b in the order of consideration: a higher score, or the same
\* score and a start at least as close to video_duration / 2
NotBehind(a, b) ==
    \/ a.score > b.score
    \/ /\ a.score = b.score
       /\ Abs(2 * a.start - video_duration_sec) <= Abs(2 * b.start - video_duration_sec)

\* the step of the loop leaves the candidate out because it overlaps a selected one
RejectedForOverlap ==
    /\ m_pc = "loop"
    /\ idx <= Len(all_h)
    /\ idx' = idx + 1
    /\ selected' = selected
    /\ \E i \in 1..Len(selected) : GuardOverlap(all_h[idx], selected[i])

\* C22: candidates are considered in order of descending score, ties in favour of
\* the start closer to video_duration / 2: a candidate rejected for overlap
\* overlaps only accepted intervals with a higher score, or an equal score and a
\* start at least as close to the midpoint; and the first candidate of the order
\* is selected whenever it lasts at most 22 s.
C22_ConsideredByScore ==
    /\ [](\A i, j \in 1..Len(all_h) : i < j => NotBehind(all_h[i], all_h[j]))
    /\ [][RejectedForOverlap =>
             \A i \in 1..Len(selected) :
                 GuardOverlap(all_h[idx], selected[i]) => NotBehind(selected[i], all_h[idx])]_vars
    /\ []((MergeReturned /\ all_h # <<>> /\ all_h[1].end - all_h[1].start <= HARD_CEILING)
             => all_h[1] \in Range(merged))

\* a run that took its first candidate, which was not the first of the input, and
\* rejected a later one for overlapping an accepted interval
C22_Witness ==
    /\ m_pc = "returned"
    /\ all_h # <<>>
    /\ all_h[1] \in Range(merged)
    /\ all_h[1] # (audio_highlights \o visual_highlights)[1]
    /\ \E k \in 2..Len(all_h) :
          /\ all_h[k] \notin Range(merged)
          /\ \E i \in 1..Len(merged) :
                /\ GuardOverlap(all_h[k], merged[i])
                /\ merged[i].score > all_h[k].score

----------------------------------------------------------------------------
(* json_to_srt step by step, on the lists merge_highlights returns *)

InitSrt ==
    /\ srt_moments \in FuserOutputs
    /\ items \in Transcripts \cup DenseTranscripts
    /\ video_duration_sec = 0
    /\ audio_highlights = <<>>
    /\ visual_highlights = <<>>
    /\ srt_pc = "start"
    /\ words = <<>>
    /\ moment_idx = 0
    /\ current_output_time = 0
    /\ mapped_words = <<>>
    /\ word_idx = 0
    /\ srt_entries = <<>>
    /\ entry_idx = 1
    /\ current_chunk = <<>>
    /\ chunk_start = None
    /\ srt_output = None
    /\ IdleMerge /\ IdleHandler /\ IdleExtract /\ IdlePipeline

\* handler.py:610-629, no item or no timestamped word: return None
SrtNoWords ==
    /\ srt_pc = "start"
    /\ items = <<>> \/ BuildWords(items) = <<>>
    /\ srt_output' = None
    /\ srt_pc' = "done"
    /\ UNCHANGED <<srt_moments, words, moment_idx, current_output_time, mapped_words,
                   word_idx, srt_entries, entry_idx, current_chunk, chunk_start,
                   inputVars, mergeVars, handlerVars, stageVars>>

\* handler.py:610-633
SrtBuildWords ==
    /\ srt_pc = "start"
    /\ items # <<>> /\ BuildWords(items) # <<>>
    /\ words' = BuildWords(items)
    /\ mapped_words' = <<>>
    /\ current_output_time' = 0
    /\ moment_idx' = 1
    /\ srt_pc' = "map"
    /\ UNCHANGED <<srt_moments, word_idx, srt_entries, entry_idx, current_chunk,
                   chunk_start, srt_output, inputVars, mergeVars, handlerVars, stageVars>>

\* handler.py:635-656, one moment
SrtMapMoment ==
    /\ srt_pc = "map"
    /\ moment_idx <= Len(srt_moments)
    /\ LET moment == srt_moments[moment_idx]
       IN /\ mapped_words' = mapped_words \o MapMoment(words, moment, current_output_time)
          /\ current_output_time' = current_output_time + (moment.end - moment.start)
    /\ moment_idx' = moment_idx + 1
    /\ UNCHANGED <<srt_pc, srt_moments, words, word_idx, srt_entries, entry_idx,
                   current_chunk, chunk_start, srt_output, inputVars, mergeVars, handlerVars, stageVars>>

\* handler.py:658-660, no word inside any moment: return None
SrtNoMappedWords ==
    /\ srt_pc = "map"
    /\ moment_idx > Len(srt_moments)
    /\ mapped_words = <<>>
    /\ srt_output' = None
    /\ srt_pc' = "done"
    /\ UNCHANGED <<srt_moments, words, moment_idx, current_output_time, mapped_words,
                   word_idx, srt_entries, entry_idx, current_chunk, chunk_start,
                   inputVars, mergeVars, handlerVars, stageVars>>

\* handler.py:662-666
SrtStartChunks ==
    /\ srt_pc = "map"
    /\ moment_idx > Len(srt_moments)
    /\ mapped_words # <<>>
    /\ srt_entries' = EmptyChunks.entries
    /\ entry_idx' = EmptyChunks.entry_idx
    /\ current_chunk' = EmptyChunks.current_chunk
    /\ chunk_start' = EmptyChunks.chunk_start
    /\ word_idx' = 1
    /\ srt_pc' = "chunk"
    /\ UNCHANGED <<srt_moments, words, moment_idx, current_output_time, mapped_words,
                   srt_output, inputVars, mergeVars, handlerVars, stageVars>>

\* handler.py:668-681, one mapped word
SrtChunkWord ==
    /\ srt_pc = "chunk"
    /\ word_idx <= Len(mapped_words)
    /\ LET st == ChunkWord([entries |-> srt_entries, entry_idx |-> entry_idx,
                            current_chunk |-> current_chunk, chunk_start |-> chunk_start],
                           mapped_words[word_idx], mapped_words[Len(mapped_words)])
       IN /\ srt_entries' = st.entries
          /\ entry_idx' = st.entry_idx
          /\ current_chunk' = st.current_chunk
          /\ chunk_start' = st.chunk_start
    /\ word_idx' = word_idx + 1
    /\ UNCHANGED <<srt_pc, srt_moments, words, moment_idx, current_output_time,
                   mapped_words, srt_output, inputVars, mergeVars, handlerVars, stageVars>>

\* handler.py:683-685
SrtReturn ==
    /\ srt_pc = "chunk"
    /\ word_idx > Len(mapped_words)
    /\ srt_output' = [none |-> FALSE, entries |-> srt_entries]
    /\ srt_pc' = "done"
    /\ UNCHANGED <<srt_moments, words, moment_idx, current_output_time, mapped_words,
                   word_idx, srt_entries, entry_idx, current_chunk, chunk_start,
                   inputVars, mergeVars, handlerVars, stageVars>>

NextSrt ==
    \/ SrtNoWords
    \/ SrtBuildWords
    \/ SrtMapMoment
    \/ SrtNoMappedWords
    \/ SrtStartChunks
    \/ SrtChunkWord
    \/ SrtReturn

SpecSrt == InitSrt /\ [][NextSrt]_vars

\* the loops and the one-shot operator compute the same caption track
SrtLoopIsOperator ==
    srt_pc = "done" => srt_output = json_to_srt(items, srt_moments)

----------------------------------------------------------------------------
(* Properties of json_to_srt, under SpecSrt *)

\* an SRT timestamp HH:MM:SS,mmm read back as milliseconds
SrtMillis(t) == ((t.hh * 60 + t.mm) * 60 + t.ss) * 1000 + t.mmm

\* the output cursor after the first k moments: the sum of their durations
CursorAfter(k) == SumDur(SubSeq(srt_moments, 1, k))

\* C7: in the caption track json_to_srt builds, each entry starts no earlier than
\* the previous entry ends, and no entry starts after its own end.
C7_CaptionsDisjoint ==
    (srt_pc = "done" /\ ~srt_output.none) =>
        \A k \in 1..Len(srt_output.entries) :
            /\ SrtMillis(srt_output.entries[k].start) <= SrtMillis(srt_output.entries[k].end)
            /\ k > 1 => SrtMillis(srt_output.entries[k].start)
                            >= SrtMillis(srt_output.entries[k - 1].end)

\* C8: the cursor is the sum of the durations of the earlier moments, and every
\* mapped start and end of a word taken from a moment is at or after the cursor
\* reached after the moment before it.
C8_RemapMonotone ==
    /\ [](srt_pc = "map" => current_output_time = CursorAfter(moment_idx - 1))
    /\ [][(srt_pc = "map" /\ moment_idx' = moment_idx + 1) =>
             \A j \in (Len(mapped_words) + 1)..Len(mapped_words') :
                 /\ mapped_words'[j].start >= CursorAfter(moment_idx - 1)
                 /\ mapped_words'[j].end >= CursorAfter(moment_idx - 1)]_vars

\* a word of the second of two moments has been mapped behind a positive cursor
C8_Witness ==
    /\ srt_pc = "map"
    /\ moment_idx = 3
    /\ CursorAfter(1) > 0
    /\ \E i \in 1..Len(words) :
          /\ srt_moments[2].start <= words[i].start
          /\ words[i].start < srt_moments[2].end
    /\ mapped_words # <<>>
    /\ mapped_words[Len(mapped_words)].start >= CursorAfter(1)

----------------------------------------------------------------------------
(* consolidation_handler, one invocation (handler.py:45-218) *)

\* the transcripts of the handler runs: none, punctuation only, words inside and
\* outside the moments the candidate pools can yield
HandlerTranscripts ==
    { <<>>,
      <<Punct(".")>>,
      <<WordSlots[1]>>,
      <<WordSlots[3], Punct(".")>>,
      <<WordSlots[5]>>,
      <<WordSlots[6]>>,
      <<WordSlots[2], WordSlots[4]>> }

SubtitleKey == "subtitles/video.srt"       \* f"subtitles/{video_id}.srt"

\* the events handed to the handler: with or without the 'detail' and
\* 'detail-type' keys, the job status and the job name of the detail ("None" when
\* the key is absent)
Events ==
    [has_detail : BOOLEAN,
     TranscriptionJobStatus : {"COMPLETED", "FAILED"},
     TranscriptionJobName : {"None", "clip-v1", "transcribe-", "transcribe-v1"}]

\* transcribe_job_name.startswith('transcribe-') (handler.py:68)
StartsWithTranscribe(name) == name \in {"transcribe-", "transcribe-v1"}

\* transcribe_job_name.replace('transcribe-', '') (handler.py:71)
VideoIdOf(name) == IF name = "transcribe-" THEN "" ELSE "v1"

\* a table without the item of the video (handler.py:81)
NoItem == <<>>

mediaconvert_job_id == "job-v1"            \* response['Job']['Id'] (handler.py:588)
smart_title == "title"                     \* summarize_context (handler.py:156)

POLL_DELAY == Sec(2)                       \* time.sleep(2) (handler.py:251)
max_retries == 150                         \* handler.py:240

\* update_video_status (handler.py:450-458): SET of every field of data; DynamoDB
\* creates the item when it does not exist
update_video_status(record, data) ==
    [k \in (DOMAIN record) \cup (DOMAIN data) |->
        IF k \in DOMAIN data THEN data[k] ELSE record[k]]

\* the except clause (handler.py:210-218) for an exception e met while video_id
\* has the value vid: "unbound" when the name was never assigned, which makes
\* `if video_id:' raise UnboundLocalError in place of e
ExceptClause(e, vid) ==
    /\ exc' = e
    /\ pc' = "error"
    /\ IF vid = "unbound"
       THEN /\ raised' = "UnboundLocalError"
            /\ UNCHANGED <<video_record, writes>>
       ELSE /\ raised' = e
            /\ IF vid # ""
               THEN /\ video_record' = update_video_status(video_record,
                                           [status |-> "ERROR", phase |-> "CONSOLIDATION",
                                            error |-> e])
                    /\ writes' = Append(writes, "ERROR")
               ELSE UNCHANGED <<video_record, writes>>

Init ==
    /\ event \in Events
    /\ video_record \in {[status |-> "ANALYZING"], NoItem}
    /\ video_duration_sec = 0
    /\ audio_highlights = <<>>
    /\ visual_highlights = <<>>
    /\ items = <<>>
    /\ pc = "start"
    /\ key_moments = <<>>
    /\ fallbacks = <<>>
    /\ srt_content = None
    /\ srt_key = "None"
    /\ subtitle_objects = {}
    /\ job = None
    /\ IdleInvocation
    /\ IdleMerge /\ IdleSrt /\ IdleExtract /\ IdlePipeline

\* handler.py:55-57
HInvalidEvent ==
    /\ pc = "start"
    /\ ~event.has_detail
    /\ result' = [statusCode |-> 400]
    /\ pc' = "returned"
    /\ UNCHANGED <<key_moments, fallbacks, srt_content, srt_key, subtitle_objects, job,
                   video_record, event, video_id, polls, slept, JobStatus, writes, exc,
                   raised, calls, inputVars, loopVars>>

\* handler.py:59-65
HJobNotCompleted ==
    /\ pc = "start"
    /\ event.has_detail
    /\ event.TranscriptionJobStatus # "COMPLETED"
    /\ result' = [statusCode |-> 200]
    /\ pc' = "returned"
    /\ UNCHANGED <<key_moments, fallbacks, srt_content, srt_key, subtitle_objects, job,
                   video_record, event, video_id, polls, slept, JobStatus, writes, exc,
                   raised, calls, inputVars, loopVars>>

\* handler.py:67-69: ValueError before video_id is assigned
HBadJobName ==
    /\ pc = "start"
    /\ event.has_detail
    /\ event.TranscriptionJobStatus = "COMPLETED"
    /\ \/ event.TranscriptionJobName = "None"
       \/ ~StartsWithTranscribe(event.TranscriptionJobName)
    /\ ExceptClause("Invalid transcribe job name", video_id)
    /\ UNCHANGED <<key_moments, fallbacks, srt_content, srt_key, subtitle_objects, job,
                   event, video_id, polls, slept, JobStatus, result, calls,
                   inputVars, loopVars>>

\* handler.py:71-74: the job name is the bare prefix
HEmptyVideoId ==
    /\ pc = "start"
    /\ event.has_detail
    /\ event.TranscriptionJobStatus = "COMPLETED"
    /\ event.TranscriptionJobName # "None"
    /\ StartsWithTranscribe(event.TranscriptionJobName)
    /\ video_id' = VideoIdOf(event.TranscriptionJobName)
    /\ video_id' = ""
    /\ ExceptClause("No videoId found in job name", video_id')
    /\ UNCHANGED <<key_moments, fallbacks, srt_content, srt_key, subtitle_objects, job,
                   event, polls, slept, JobStatus, result, calls,
                   inputVars, loopVars>>

\* handler.py:71-76
HVideoId ==
    /\ pc = "start"
    /\ event.has_detail
    /\ event.TranscriptionJobStatus = "COMPLETED"
    /\ event.TranscriptionJobName # "None"
    /\ StartsWithTranscribe(event.TranscriptionJobName)
    /\ video_id' = VideoIdOf(event.TranscriptionJobName)
    /\ video_id' # ""
    /\ pc' = "get_item"
    /\ UNCHANGED <<key_moments, fallbacks, srt_content, srt_key, subtitle_objects, job,
                   video_record, event, polls, slept, JobStatus, writes, exc, raised,
                   result, calls, inputVars, loopVars>>

\* handler.py:79-82
HVideoNotFound ==
    /\ pc = "get_item"
    /\ DOMAIN video_record = {}
    /\ ExceptClause("Video not found in DynamoDB", video_id)
    /\ UNCHANGED <<key_moments, fallbacks, srt_content, srt_key, subtitle_objects, job,
                   event, video_id, polls, slept, JobStatus, result, calls,
                   inputVars, loopVars>>

\* handler.py:79-89
HGetItem ==
    /\ pc = "get_item"
    /\ DOMAIN video_record # {}
    /\ pc' = "transcribe"
    /\ UNCHANGED <<key_moments, fallbacks, srt_content, srt_key, subtitle_objects, job,
                   video_record, event, video_id, polls, slept, JobStatus, writes, exc,
                   raised, result, calls, inputVars, loopVars>>

\* handler.py:92, 225-229: the job the record names is not COMPLETED
HTranscribeNotComplete ==
    /\ pc = "transcribe"
    /\ ExceptClause("Transcribe job not complete", video_id)
    /\ UNCHANGED <<key_moments, fallbacks, srt_content, srt_key, subtitle_objects, job,
                   event, video_id, polls, slept, JobStatus, result, calls,
                   inputVars, loopVars>>

\* handler.py:92, 225-236
HTranscribeResults ==
    /\ pc = "transcribe"
    /\ pc' = "rekognition"
    /\ UNCHANGED <<key_moments, fallbacks, srt_content, srt_key, subtitle_objects, job,
                   video_record, event, video_id, polls, slept, JobStatus, writes, exc,
                   raised, result, calls, inputVars, loopVars>>

\* get_rekognition_results (handler.py:241-251): one poll answered with a status
\* that is neither SUCCEEDED nor FAILED, then the sleep of 2 s
HPollInProgress ==
    /\ pc = "rekognition"
    /\ polls < max_retries
    /\ polls' = polls + 1
    /\ JobStatus' = "IN_PROGRESS"
    /\ slept' = slept + POLL_DELAY
    /\ UNCHANGED <<pc, key_moments, fallbacks, srt_content, srt_key, subtitle_objects,
                   job, video_record, event, video_id, writes, exc, raised, result,
                   calls, inputVars, loopVars>>

\* handler.py:241-245: the poll answered SUCCEEDED
HPollSucceeded ==
    /\ pc = "rekognition"
    /\ polls < max_retries
    /\ polls' = polls + 1
    /\ JobStatus' = "SUCCEEDED"
    /\ pc' = "poll_return"
    /\ UNCHANGED <<key_moments, fallbacks, srt_content, srt_key, subtitle_objects, job,
                   video_record, event, video_id, slept, writes, exc, raised, result,
                   calls, inputVars, loopVars>>

\* handler.py:245, 93: `return response'; the locals of get_rekognition_results
\* are gone
HPollReturn ==
    /\ pc = "poll_return"
    /\ polls' = 0
    /\ slept' = 0
    /\ JobStatus' = "None"
    /\ pc' = "fetched"
    /\ UNCHANGED <<key_moments, fallbacks, srt_content, srt_key, subtitle_objects, job,
                   video_record, event, video_id, writes, exc, raised, result,
                   calls, inputVars, loopVars>>

\* the poll answered FAILED goes on polling
MutPollFailed ==
    /\ pc = "rekognition"
    /\ polls < max_retries
    /\ polls' = polls + 1
    /\ JobStatus' = "FAILED"
    /\ slept' = slept + POLL_DELAY
    /\ UNCHANGED <<pc, key_moments, fallbacks, srt_content, srt_key, subtitle_objects,
                   job, video_record, event, video_id, writes, exc, raised, result,
                   calls, inputVars, loopVars>>

\* handler.py:241-247, 210-218: the poll answered FAILED raises
HPollFailed ==
    /\ pc = "rekognition"
    /\ polls < max_retries
    /\ polls' = polls + 1
    /\ JobStatus' = "FAILED"
    /\ ExceptClause("Rekognition job failed", video_id)
    /\ UNCHANGED <<key_moments, fallbacks, srt_content, srt_key, subtitle_objects, job,
                   event, video_id, slept, result, calls, inputVars, loopVars>>

\* handler.py:241, 253, 210-218: the range is exhausted
HPollTimeout ==
    /\ pc = "rekognition"
    /\ polls = max_retries
    /\ ExceptClause("Rekognition job timed out", video_id)
    /\ UNCHANGED <<key_moments, fallbacks, srt_content, srt_key, subtitle_objects, job,
                   event, video_id, polls, slept, JobStatus, result, calls,
                   inputVars, loopVars>>

\* handler.py:96-101: the duration and the candidates of the two extractors
HExtract ==
    /\ pc = "fetched"
    /\ video_duration_sec' \in Durations
    /\ audio_highlights' \in SeqsUpTo(AudioPool, MaxAudio)
    /\ visual_highlights' \in SeqsUpTo(VisualPool, MaxVisual)
    /\ items' \in HandlerTranscripts
    /\ pc' = "extracted"
    /\ UNCHANGED <<key_moments, fallbacks, srt_content, srt_key, subtitle_objects, job,
                   video_record, invocationVars, loopVars>>

\* handler.py:106-117: fuse, then clamp to the video duration
HMerge ==
    /\ pc = "extracted"
    /\ key_moments' = ClampMoments(merge_highlights(audio_highlights, visual_highlights,
                                                    video_duration_sec),
                                   video_duration_sec)
    /\ calls' = [calls EXCEPT !.fuser = @ + 1]
    /\ pc' = "merged"
    /\ UNCHANGED <<fallbacks, srt_content, srt_key, subtitle_objects, job, video_record,
                   event, video_id, polls, slept, JobStatus, writes, exc, raised, result,
                   inputVars, loopVars>>

\* handler.py:119-121: the call generate_fallback_highlights(video_duration=...)
\* names a parameter the function (handler.py:429, parameter `duration') does not
\* have, so it raises TypeError; handler.py:210-218 marks the record and re-raises
HFallback ==
    /\ pc = "merged"
    /\ key_moments = <<>>
    /\ calls' = [calls EXCEPT !.fallback = @ + 1]
    /\ ExceptClause("TypeError", video_id)
    /\ UNCHANGED <<key_moments, fallbacks, srt_content, srt_key, subtitle_objects, job,
                   event, video_id, polls, slept, JobStatus, result,
                   inputVars, loopVars>>

\* handler.py:123-125
HRefuse ==
    /\ pc = "merged"
    /\ key_moments # <<>>
    /\ key_moments' = merge_highlights(key_moments, <<>>, video_duration_sec)
    /\ calls' = [calls EXCEPT !.fuser = @ + 1]
    /\ pc' = "refused"
    /\ UNCHANGED <<fallbacks, srt_content, srt_key, subtitle_objects, job, video_record,
                   event, video_id, polls, slept, JobStatus, writes, exc, raised, result,
                   inputVars, loopVars>>

\* handler.py:127-134, total_dur < 15
HAugment ==
    /\ pc = "refused"
    /\ SumDur(key_moments) < SOFT_FLOOR
    /\ fallbacks' = generate_fallback_highlights(video_duration_sec)
    /\ key_moments' = merge_highlights(key_moments \o fallbacks', <<>>, video_duration_sec)
    /\ calls' = [fallback |-> calls.fallback + 1, fuser |-> calls.fuser + 1]
    /\ pc' = "final"
    /\ UNCHANGED <<srt_content, srt_key, subtitle_objects, job, video_record,
                   event, video_id, polls, slept, JobStatus, writes, exc, raised, result,
                   inputVars, loopVars>>

\* handler.py:127-129, total_dur >= 15
HNoAugment ==
    /\ pc = "refused"
    /\ SumDur(key_moments) >= SOFT_FLOOR
    /\ pc' = "final"
    /\ UNCHANGED <<key_moments, fallbacks, srt_content, srt_key, subtitle_objects, job,
                   video_record, invocationVars, inputVars, loopVars>>

\* handler.py:141-151
HSubtitles ==
    /\ pc = "final"
    /\ srt_content' = json_to_srt(items, key_moments)
    /\ IF ~srt_content'.none /\ srt_content'.entries # <<>>
       THEN /\ srt_key' = SubtitleKey
            /\ subtitle_objects' = subtitle_objects \cup {SubtitleKey}
       ELSE /\ srt_key' = "None"
            /\ UNCHANGED subtitle_objects
    /\ pc' = "subtitled"
    /\ UNCHANGED <<key_moments, fallbacks, job, video_record, invocationVars,
                   inputVars, loopVars>>

\* handler.py:169-178
HCreateJob ==
    /\ pc = "subtitled"
    /\ job' = create_mediaconvert_job(key_moments, srt_key)
    /\ pc' = "job"
    /\ UNCHANGED <<key_moments, fallbacks, srt_content, srt_key, subtitle_objects,
                   video_record, invocationVars, inputVars, loopVars>>

\* the job is created and an exception follows
MutCreateJobFails ==
    /\ pc = "subtitled"
    /\ job' = create_mediaconvert_job(key_moments, srt_key)
    /\ ExceptClause("MediaConvert create_job failed", video_id)
    /\ UNCHANGED <<key_moments, fallbacks, srt_content, srt_key, subtitle_objects,
                   event, video_id, polls, slept, JobStatus, result, calls,
                   inputVars, loopVars>>

\* handler.py:169-178, 588, 210-218: MediaConvert refuses the job
HCreateJobFails ==
    /\ pc = "subtitled"
    /\ ExceptClause("MediaConvert create_job failed", video_id)
    /\ UNCHANGED <<key_moments, fallbacks, srt_content, srt_key, subtitle_objects, job,
                   event, video_id, polls, slept, JobStatus, result, calls,
                   inputVars, loopVars>>

\* handler.py:182-208
HUpdateStatus ==
    /\ pc = "job"
    /\ video_record' = update_video_status(video_record,
                           [status |-> "EDITING", phase |-> "MEDIACONVERT",
                            mediaConvertJobId |-> mediaconvert_job_id,
                            title |-> smart_title,
                            keyMoments |-> key_moments,
                            keyMomentsCount |-> Len(key_moments)])
    /\ writes' = Append(writes, "EDITING")
    /\ result' = [statusCode |-> 200]
    /\ pc' = "editing"
    /\ UNCHANGED <<key_moments, fallbacks, srt_content, srt_key, subtitle_objects, job,
                   event, video_id, polls, slept, JobStatus, exc, raised, calls,
                   inputVars, loopVars>>

Next ==
    \/ HInvalidEvent
    \/ HJobNotCompleted
    \/ HBadJobName
    \/ HEmptyVideoId
    \/ HVideoId
    \/ HVideoNotFound
    \/ HGetItem
    \/ HTranscribeNotComplete
    \/ HTranscribeResults
    \/ HPollInProgress
    \/ HPollSucceeded
    \/ HPollReturn
    \/ HPollFailed
    \/ HPollTimeout
    \/ HExtract
    \/ HMerge
    \/ HFallback
    \/ HRefuse
    \/ HAugment
    \/ HNoAugment
    \/ HSubtitles
    \/ HCreateJob
    \/ HCreateJobFails
    \/ HUpdateStatus

Spec == Init /\ [][Next]_vars

----------------------------------------------------------------------------
(* Properties of consolidation_handler, under Spec *)

KeyMomentsFinal == pc \in {"final", "subtitled", "job", "editing"}

\* C3 as stated: after the augmentation and the final re-fusion the final key
\* moments sum to at least 15 s whenever any candidate or fallback clip exists.
C3_FloorAlways == KeyMomentsFinal => SumDur(key_moments) >= SOFT_FLOOR

\* C3, amended: the final key moments sum to at most 22 s; they sum to at least
\* 15 s when no augmentation was needed, and after an augmentation when the video
\* lasts at least 20 s and no moment selected before it overlaps a fallback clip.
C3_FloorWhenFallbackFits ==
    /\ [](KeyMomentsFinal => SumDur(key_moments) <= HARD_CEILING)
    /\ [][(pc = "refused" /\ pc' = "final") =>
             ((/\ video_duration_sec >= Sec(20)
               /\ \A i \in 1..Len(key_moments) : \A j \in 1..Len(fallbacks') :
                      ~GuardOverlap(key_moments[i], fallbacks'[j]))
                  => SumDur(key_moments') >= SOFT_FLOOR)]_vars

\* an augmentation that lifted a total below 15 s to the floor
C3_Witness ==
    /\ pc = "final"
    /\ fallbacks # <<>>
    /\ video_duration_sec >= Sec(20)
    /\ \E i \in 1..Len(key_moments) : key_moments[i] \notin Range(fallbacks)
    /\ \E i \in 1..Len(key_moments) : key_moments[i] \in Range(fallbacks)
    /\ \A i \in 1..Len(key_moments) : \A j \in 1..Len(fallbacks) :
           key_moments[i] \in Range(fallbacks) \/ ~GuardOverlap(key_moments[i], fallbacks[j])
    /\ SumDur(key_moments) >= SOFT_FLOOR

ValidKeyMoment(m) == 0 <= m.start /\ m.start < m.end /\ m.end <= video_duration_sec

\* C5: every key moment sent to the transcoder and persisted satisfies
\* 0 <= start < end <= videoDuration (so none starts at or after videoDuration).
C5_KeyMomentsInsideVideo ==
    /\ KeyMomentsFinal => \A i \in 1..Len(key_moments) : ValidKeyMoment(key_moments[i])
    /\ pc \in {"job", "editing"} => Len(job.InputClippings) = Len(key_moments)
    /\ pc = "editing" =>
           /\ video_record.keyMoments = key_moments
           /\ \A i \in 1..Len(video_record.keyMoments) :
                  ValidKeyMoment(video_record.keyMoments[i])

\* a persisted list holding a moment the clamp cut at the end of the video, beside
\* a fallback clip of the augmentation
C5_Witness ==
    /\ pc = "editing"
    /\ \E i \in 1..Len(key_moments) :
          /\ key_moments[i].end = video_duration_sec
          /\ key_moments[i] \notin Range(audio_highlights \o visual_highlights)
          /\ key_moments[i] \notin Range(fallbacks)
    /\ \E i \in 1..Len(key_moments) : key_moments[i] \in Range(fallbacks)

\* a timestamped word starts inside a selected key moment (half-open test)
WordInsideMoment ==
    \E i \in 1..Len(items) : \E k \in 1..Len(key_moments) :
        /\ items[i].type = "pronunciation"
        /\ items[i].timed
        /\ key_moments[k].start <= items[i].start_time
        /\ items[i].start_time < key_moments[k].end

\* C9: with no timestamped word, or none starting inside a key moment, json_to_srt
\* returns none, no subtitle file is stored and the job has neither caption
\* selector nor caption description; otherwise the file is stored and referenced.
C9_CaptionsIffWordInside ==
    pc \in {"job", "editing"} =>
        IF WordInsideMoment
        THEN /\ ~srt_content.none
             /\ srt_key \in subtitle_objects
             /\ job.CaptionSelectors = {[name |-> "Captions", SourceFile |-> srt_key]}
             /\ Len(job.CaptionDescriptions) = 1
             /\ job.CaptionDescriptions[1].CaptionSelectorName = "Captions"
             /\ job.CaptionDescriptions[1].DestinationType = "BURN_IN"
        ELSE /\ srt_content.none
             /\ srt_key = "None"
             /\ subtitle_objects = {}
             /\ job.CaptionSelectors = {}
             /\ job.CaptionDescriptions = <<>>

\* a job built without captions although the transcript has timestamped words
C9_Witness ==
    /\ pc = "job"
    /\ BuildWords(items) # <<>>
    /\ ~WordInsideMoment
    /\ job.CaptionSelectors = {}

C11_MiddleClipCentered ==
    (Len(fallbacks) >= 2 /\ video_duration_sec > FALLBACK_MIN_DURATION) =>
        /\ fallbacks[2].end - fallbacks[2].start = FALLBACK_CLIP
        /\ fallbacks[2].start + fallbacks[2].end = video_duration_sec

\* the invocation is past the augmentation: it goes on to the captions and the
\* transcode request, or it has ended
PastAugmentation == pc \in {"final", "subtitled", "job", "editing", "error"}

\* C12: one invocation calls the fallback generator at most twice and the fuser at
\* most three times and goes on to captions and the transcode request without
\* looping; for videoDuration = 10 and no candidates the final key-moment list is
\* exactly the one clip [0, 5].
C12_SingleAugmentationPass ==
    /\ calls.fallback <= 2
    /\ calls.fuser <= 3
    /\ (/\ PastAugmentation
        /\ video_duration_sec = Sec(10)
        /\ audio_highlights = <<>>
        /\ visual_highlights = <<>>) => key_moments = <<Clip(0, Sec(5))>>

----------------------------------------------------------------------------
(* extract_audio_highlights and extract_visual_highlights (handler.py:255-389).
   A word is the sequence of its characters, so that `k in word' is a substring
   test; a confidence is in hundredths (Transcribe) or in percent (Rekognition);
   a transcript item and a label are records that hold the keys the JSON holds. *)

\* d.get(k, default)
Get(d, k, default) == IF k \in DOMAIN d THEN d[k] ELSE default

\* str.lower on the letters the transcripts use
LowerChar(c) ==
    CASE c = "G" -> "g"
      [] c = "N" -> "n"
      [] c = "W" -> "w"
      [] OTHER -> c

Lower(w) == [i \in 1..Len(w) |-> LowerChar(w[i])]

\* k in word (handler.py:308)
KeywordIn(k, word) ==
    \E i \in 1..(Len(word) - Len(k) + 1) : SubSeq(word, i, i + Len(k) - 1) = k

\* handler.py:257-260, in the order of the dict; weights in hundredths
EXCITEMENT_KEYWORDS ==
    << [k |-> <<"g", "o", "a", "l">>, s |-> 95],
       [k |-> <<"s", "c", "o", "r", "e">>, s |-> 95],
       [k |-> <<"w", "i", "n">>, s |-> 95],
       [k |-> <<"a", "m", "a", "z", "i", "n", "g">>, s |-> 85],
       [k |-> <<"w", "o", "w">>, s |-> 85],
       [k |-> <<"y", "e", "s">>, s |-> 70],
       [k |-> <<"o", "k", "a", "y">>, s |-> 60],
       [k |-> <<"r", "i", "g", "h", "t">>, s |-> 60],
       [k |-> <<"n", "o", "w">>, s |-> 60],
       [k |-> <<"l", "e", "t">>, s |-> 60],
       [k |-> <<"g", "o", "o", "d">>, s |-> 60],
       [k |-> <<"s", "t", "a", "r", "t">>, s |-> 60],
       [k |-> <<"w", "e", "l", "c", "o", "m", "e">>, s |-> 80] >>

\* the weight of the first keyword of the table found in the word, None without
FirstKeyword(word) ==
    LET hits == {n \in 1..Len(EXCITEMENT_KEYWORDS) : KeywordIn(EXCITEMENT_KEYWORDS[n].k, word)}
    IN IF hits = {} THEN None
       ELSE [none |-> FALSE,
             s |-> EXCITEMENT_KEYWORDS[CHOOSE n \in hits : \A m \in hits : n <= m].s]

LOOK_LIMIT == Sec(30)                      \* handler.py:313, 317
SNAP_FALLBACK == Sec(3)                    \* handler.py:314, 318
SNAP_BUFFER == 3                           \* handler.py:321-322, 0.3 s
DEFAULT_CONFIDENCE == 90                   \* handler.py:305, 0.9

\* the three results of find_boundary: None, a time, an exception that leaves it
NoBoundary == [kind |-> "None"]
Boundary(t) == [kind |-> "time", t |-> t]
BoundaryRaises == [kind |-> "KeyError"]

\* the scan loop of find_boundary (handler.py:274-297); positions count from 1
RECURSIVE ScanBoundary(_, _, _, _, _)
ScanBoundary(its, curr_time, scan_idx, direction, limit_sec) ==
    IF scan_idx < 1 \/ scan_idx > Len(its) THEN NoBoundary
    ELSE LET item == its[scan_idx]
             type == Get(item, "type", "None")
             onward == ScanBoundary(its, curr_time, scan_idx + direction, direction,
                                    limit_sec)
         IN IF /\ type = "pronunciation"
               /\ Abs(Get(item, "start_time", 0) - curr_time) > limit_sec
            THEN NoBoundary
            ELSE IF type = "punctuation"
            THEN IF Get(Get(item, "alternatives", <<<<>>>>)[1], "content", <<>>)
                        \in {<<".">>, <<"?">>, <<"!">>}
                 THEN IF direction = -1
                      THEN IF scan_idx + 1 <= Len(its)
                           THEN IF "start_time" \in DOMAIN its[scan_idx + 1]
                                THEN Boundary(its[scan_idx + 1].start_time)
                                ELSE BoundaryRaises
                           ELSE onward
                      ELSE IF scan_idx - 1 >= 1
                           THEN IF "end_time" \in DOMAIN its[scan_idx - 1]
                                THEN Boundary(its[scan_idx - 1].end_time)
                                ELSE BoundaryRaises
                           ELSE onward
                 ELSE onward
            ELSE onward

\* find_boundary (handler.py:265-300)
find_boundary(its, index, direction, limit_sec) ==
    LET key == IF direction = -1 THEN "start_time" ELSE "end_time"
    IN IF key \notin DOMAIN its[index] THEN NoBoundary
       ELSE ScanBoundary(its, its[index][key], index, direction, limit_sec)

\* the candidate of a keyword hit without the fixed pad of 0.3 s
MutAudioItem(its, i, hl) ==
    LET item == its[i]
    IN  IF Get(item, "type", "None") # "pronunciation"
        THEN [highlights |-> hl, raised |-> FALSE]
        ELSE IF "alternatives" \notin DOMAIN item
        THEN [highlights |-> hl, raised |-> TRUE]
        ELSE LET alt == item.alternatives[1]
                 word == Lower(Get(alt, "content", <<>>))
                 confidence == Get(alt, "confidence", DEFAULT_CONFIDENCE)
                 kw == FirstKeyword(word)
                 t_start == Get(item, "start_time", 0)
                 t_end == Get(item, "end_time", 0)
                 snapped_start == find_boundary(its, i, -1, LOOK_LIMIT)
                 snapped_end == find_boundary(its, i, 1, LOOK_LIMIT)
                 final_start == IF snapped_start.kind = "time" THEN snapped_start.t
                                ELSE Max(0, t_start - SNAP_FALLBACK)
                 final_end == IF snapped_end.kind = "time" THEN snapped_end.t
                              ELSE t_end + SNAP_FALLBACK
             IN  IF kw.none THEN [highlights |-> hl, raised |-> FALSE]
                 ELSE IF snapped_start.kind = "KeyError" \/ snapped_end.kind = "KeyError"
                 THEN [highlights |-> hl, raised |-> TRUE]
                 ELSE [highlights |->
                          Append(hl, [start |-> final_start,
                                      end |-> final_end,
                                      score |-> kw.s * confidence]),
                       raised |-> FALSE]

\* one iteration of the loop of extract_audio_highlights (handler.py:302-330) on
\* item i: the list after it, and whether an exception left the loop; the score
\* s * confidence, a product of two hundredths, is in ten-thousandths
AudioItem(its, i, hl) ==
    LET item == its[i]
    IN  IF Get(item, "type", "None") # "pronunciation"
        THEN [highlights |-> hl, raised |-> FALSE]
        ELSE IF "alternatives" \notin DOMAIN item
        THEN [highlights |-> hl, raised |-> TRUE]
        ELSE LET alt == item.alternatives[1]
                 word == Lower(Get(alt, "content", <<>>))
                 confidence == Get(alt, "confidence", DEFAULT_CONFIDENCE)
                 kw == FirstKeyword(word)
                 t_start == Get(item, "start_time", 0)
                 t_end == Get(item, "end_time", 0)
                 snapped_start == find_boundary(its, i, -1, LOOK_LIMIT)
                 snapped_end == find_boundary(its, i, 1, LOOK_LIMIT)
                 final_start == IF snapped_start.kind = "time" THEN snapped_start.t
                                ELSE Max(0, t_start - SNAP_FALLBACK)
                 final_end == IF snapped_end.kind = "time" THEN snapped_end.t
                              ELSE t_end + SNAP_FALLBACK
             IN  IF kw.none THEN [highlights |-> hl, raised |-> FALSE]
                 ELSE IF snapped_start.kind = "KeyError" \/ snapped_end.kind = "KeyError"
                 THEN [highlights |-> hl, raised |-> TRUE]
                 ELSE [highlights |->
                          Append(hl, [start |-> Max(0, final_start - SNAP_BUFFER),
                                      end |-> final_end + SNAP_BUFFER,
                                      score |-> kw.s * confidence]),
                       raised |-> FALSE]

\* handler.py:338-345, base scores in hundredths
ACTION_LABELS ==
    [Person |-> 20, Sports |-> 95, Competition |-> 95, Match |-> 95, Running |-> 90,
     Jumping |-> 90, Dancing |-> 90, Human |-> 20, Vehicle |-> 70, Car |-> 70,
     Plane |-> 70, Nature |-> 60, Outdoor |-> 60, Mountain |-> 60, Beach |-> 70,
     Happy |-> 80, Smile |-> 80, Laughing |-> 80, Party |-> 85, Concert |-> 90,
     Performance |-> 90, Stage |-> 85]

UNKNOWN_LABEL_SCORE == 30                  \* handler.py:360
MIN_LABEL_CONFIDENCE == 65                 \* handler.py:354
DENSITY_STEP == 5                          \* handler.py:373, 0.05 a label
DENSITY_CAP == 30                          \* handler.py:373
MIN_FINAL_SCORE == 40                      \* handler.py:378
VISUAL_BEFORE == 15                        \* handler.py:380, 1.5 s
VISUAL_AFTER == 25                         \* handler.py:381, 2.5 s

\* the first loop (handler.py:351-361) reads Label.Name and Label.Confidence of
\* every label and Timestamp of the labels it keeps; a missing key raises
LabelRaises(label) ==
    \/ "Label" \notin DOMAIN label
    \/ "Name" \notin DOMAIN label.Label
    \/ "Confidence" \notin DOMAIN label.Label
    \/ label.Label.Confidence > MIN_LABEL_CONFIDENCE /\ "Timestamp" \notin DOMAIN label

\* the labels the first loop keeps (handler.py:354)
KeptLabels(labels) ==
    {n \in 1..Len(labels) : labels[n].Label.Confidence > MIN_LABEL_CONFIDENCE}

\* the labels the first loop puts in the bucket of second ts
Bucket(labels, ts) ==
    {n \in 1..Len(labels) : /\ labels[n].Label.Confidence > MIN_LABEL_CONFIDENCE
                            /\ labels[n].Timestamp \div 1000 = ts}

BaseScore(name) == Get(ACTION_LABELS, name, UNKNOWN_LABEL_SCORE)

\* the greatest element of a non-empty set of numbers
MaxOf(S) == CHOOSE x \in S : \A y \in S : y <= x

\* the bucket scored by its best label alone, without the density bonus
MutVisualBucket(labels, ts, hl) ==
    LET in_sec == Bucket(labels, ts)
        final_score == MaxOf({BaseScore(labels[n].Label.Name) : n \in in_sec})
    IN  IF final_score > MIN_FINAL_SCORE
        THEN Append(hl, [start |-> Max(0, Sec(ts) - VISUAL_BEFORE),
                         end |-> Sec(ts) + VISUAL_AFTER,
                         score |-> final_score])
        ELSE hl

\* handler.py:364-386 for the bucket of second ts: the list after it
VisualBucket(labels, ts, hl) ==
    LET in_sec == Bucket(labels, ts)
        max_score == MaxOf({BaseScore(labels[n].Label.Name) : n \in in_sec})
        unique_labels == {labels[n].Label.Name : n \in in_sec}
        density_bonus == Min(DENSITY_CAP, Cardinality(unique_labels) * DENSITY_STEP)
        final_score == max_score + density_bonus
    IN  IF final_score > MIN_FINAL_SCORE
        THEN Append(hl, [start |-> Max(0, Sec(ts) - VISUAL_BEFORE),
                         end |-> Sec(ts) + VISUAL_AFTER,
                         score |-> final_score])
        ELSE hl

\* the second loop over sorted(label_timeline.keys())
RECURSIVE VisualBuckets(_, _, _)
VisualBuckets(labels, keys, hl) ==
    IF keys = {} THEN hl
    ELSE LET ts == CHOOSE x \in keys : \A y \in keys : x <= y
         IN VisualBuckets(labels, keys \ {ts}, VisualBucket(labels, ts, hl))

\* extract_visual_highlights (handler.py:335-389): an exception of the first loop
\* is caught at handler.py:388 before any highlight exists
extract_visual_highlights(rekognition_data) ==
    IF \E n \in 1..Len(rekognition_data) : LabelRaises(rekognition_data[n])
    THEN <<>>
    ELSE VisualBuckets(rekognition_data,
                       {rekognition_data[n].Timestamp \div 1000 :
                            n \in KeptLabels(rekognition_data)},
                       <<>>)

----------------------------------------------------------------------------
(* The extractors run on transcripts and label lists of Transcribe and
   Rekognition, well-formed and not *)

XWord(chars, s, e, conf) ==
    [type |-> "pronunciation", start_time |-> s, end_time |-> e,
     alternatives |-> <<[content |-> chars, confidence |-> conf]>>]

XPunct(c) == [type |-> "punctuation", alternatives |-> <<[content |-> <<c>>]>>]

\* a pronunciation item without the 'alternatives' key
XNoAlternatives(s, e) == [type |-> "pronunciation", start_time |-> s, end_time |-> e]

\* chronological transcripts: at most one item of each of six places, 1.0 s,
\* 3.0 s and 40.0 s or 42.0 s for the words
XTranscripts ==
    { a \o b \o c \o d \o e \o f :
        a \in {<<>>, <<XWord(<<"G", "o", "a", "l">>, 10, 14, 100)>>,
                     <<XWord(<<"t", "h", "e">>, 10, 14, 60)>>},
        b \in {<<>>, <<XPunct(".")>>, <<XPunct(",")>>},
        c \in {<<>>, <<XWord(<<"k", "n", "o", "w", "n">>, 30, 35, 0)>>,
                     <<XWord(<<"W", "o", "w">>, 30, 35, 60)>>,
                     <<XNoAlternatives(30, 35)>>},
        d \in {<<>>, <<XPunct(",")>>, <<XPunct("!")>>},
        e \in {<<>>, <<XPunct("?")>>},
        f \in {<<>>, <<XWord(<<"w", "i", "n", "n", "e", "r">>, 400, 408, 20)>>,
                     <<XWord(<<"g", "o", "a", "l">>, 420, 424, 90)>>} }

\* every pronunciation item has its keys, startTime <= endTime and a confidence
\* in [0, 1]
WellFormedTranscript(its) ==
    \A i \in 1..Len(its) :
        its[i].type = "pronunciation" =>
            /\ "alternatives" \in DOMAIN its[i]
            /\ its[i].start_time <= its[i].end_time
            /\ its[i].alternatives[1].confidence \in 0..100

MaxLabels == 2

XLabel(name, conf, ms) == [Label |-> [Name |-> name, Confidence |-> conf], Timestamp |-> ms]

LabelPool ==
    { XLabel("Sports", 90, 10400),
      XLabel("Competition", 88, 10900),
      XLabel("Person", 90, 0),
      XLabel("Person", 60, 2000),
      XLabel("Tree", 100, 2500),
      XLabel("Party", 66, 2999),
      [Timestamp |-> 500] }

LabelLists == SeqsUpTo(LabelPool, MaxLabels)

InitExtract ==
    /\ \/ /\ items \in XTranscripts
          /\ rekognition_results = <<>>
          /\ x_pc = "audio"
       \/ /\ items = <<>>
          /\ rekognition_results \in LabelLists
          /\ x_pc = "visual"
    /\ x_i = 1
    /\ highlights = <<>>
    /\ x_raised = FALSE
    /\ video_duration_sec = 0
    /\ audio_highlights = <<>>
    /\ visual_highlights = <<>>
    /\ IdleMerge /\ IdleSrt /\ IdleHandler /\ IdlePipeline

offExtractVars == <<mergeVars, srtVars, handlerVars, invocationVars, pipelineVars>>

\* handler.py:302-330: one item, no exception
AudioStep ==
    /\ x_pc = "audio"
    /\ x_i <= Len(items)
    /\ ~AudioItem(items, x_i, highlights).raised
    /\ highlights' = AudioItem(items, x_i, highlights).highlights
    /\ x_i' = x_i + 1
    /\ UNCHANGED <<x_pc, x_raised, rekognition_results, inputVars, offExtractVars>>

\* handler.py:302-332: the item raises; the except clause prints and the function
\* returns the list built so far
AudioRaise ==
    /\ x_pc = "audio"
    /\ x_i <= Len(items)
    /\ AudioItem(items, x_i, highlights).raised
    /\ x_raised' = TRUE
    /\ audio_highlights' = highlights
    /\ x_pc' = "done"
    /\ UNCHANGED <<x_i, highlights, rekognition_results, video_duration_sec, visual_highlights, items,
                   offExtractVars>>

\* handler.py:333 after the last item
AudioReturn ==
    /\ x_pc = "audio"
    /\ x_i > Len(items)
    /\ audio_highlights' = highlights
    /\ x_pc' = "done"
    /\ UNCHANGED <<x_i, highlights, x_raised, rekognition_results, video_duration_sec,
                   visual_highlights, items, offExtractVars>>

\* handler.py:335-389
VisualExtract ==
    /\ x_pc = "visual"
    /\ visual_highlights' = extract_visual_highlights(rekognition_results)
    /\ x_raised' = \E n \in 1..Len(rekognition_results) : LabelRaises(rekognition_results[n])
    /\ x_pc' = "done"
    /\ UNCHANGED <<x_i, highlights, rekognition_results, video_duration_sec, audio_highlights, items,
                   offExtractVars>>

NextExtract ==
    \/ AudioStep
    \/ AudioRaise
    \/ AudioReturn
    \/ VisualExtract

SpecExtract == InitExtract /\ [][NextExtract]_vars

----------------------------------------------------------------------------
(* Properties of the extractors, under SpecExtract *)

ValidCandidate(h) == h.start >= 0 /\ h.end > h.start /\ h.score > 0

\* C13: every candidate of either extractor has start >= 0, end > start and
\* score > 0, for chronological transcripts whose pronunciation items have
\* startTime <= endTime and confidence in [0, 1] and for rekognition_results with confidence in
\* [0, 100].
C13_CandidatesValid ==
    /\ WellFormedTranscript(items) =>
           \A n \in 1..Len(highlights) : ValidCandidate(highlights[n])
    /\ \A n \in 1..Len(visual_highlights) : ValidCandidate(visual_highlights[n])

\* C14: an extractor that met an exception does not propagate it and contributes
\* an empty candidate list.
C14_ExceptionGivesEmptyList ==
    (x_pc = "done" /\ x_raised) => audio_highlights = <<>> /\ visual_highlights = <<>>

----------------------------------------------------------------------------
(* Properties of one invocation of consolidation_handler, under Spec *)

InvocationOver == pc \in {"returned", "error", "editing"}

\* C15: whenever the transcription job or the label job reports a failed terminal
\* state, the invocation raises, creates no transcode job and the record is
\* marked ERROR.
C15_UpstreamFailureIsError ==
    (/\ InvocationOver
     /\ \/ event.has_detail /\ event.TranscriptionJobStatus = "FAILED"
        \/ JobStatus = "FAILED") =>
        /\ raised # "None"
        /\ job = None
        /\ Get(video_record, "status", "None") = "ERROR"

\* C16: every exception of the handler after the event is recognised marks the
\* record ERROR with the message and re-raises the same error.
C16_ExceptionMarksError ==
    pc = "error" =>
        /\ Get(video_record, "status", "None") = "ERROR"
        /\ Get(video_record, "error", "None") = exc
        /\ raised = exc

\* C17: get_rekognition_results polls at most 150 times with 2 s between polls,
\* returns at the first SUCCEEDED, raises at the first FAILED, raises the timeout
\* when all 150 polls were non-terminal, and never polls after a terminal status.
C17_PollingBounded ==
    /\ [](polls <= max_retries)
    /\ [](pc = "rekognition" => slept = polls * POLL_DELAY)
    /\ [][polls' # polls =>
             /\ pc = "rekognition" \/ pc = "poll_return"
             /\ pc = "rekognition" =>
                    /\ JobStatus \in {"None", "IN_PROGRESS"}
                    /\ polls' = polls + 1
                    /\ JobStatus' = "SUCCEEDED" => pc' = "poll_return" /\ raised' = "None"
                    /\ JobStatus' = "FAILED" =>
                           pc' = "error" /\ raised' = "Rekognition job failed"
                    /\ JobStatus' = "IN_PROGRESS" =>
                           pc' = "rekognition" /\ slept' = slept + POLL_DELAY]_vars
    /\ [][(pc = "rekognition" /\ pc' = "error" /\ polls' = polls) =>
             /\ polls = max_retries
             /\ JobStatus = "IN_PROGRESS"
             /\ raised' = "Rekognition job timed out"]_vars
    /\ [][(pc = "rekognition" /\ polls = max_retries) => polls' = polls]_vars

\* the timeout after 150 polls, 300 s of sleep
C17_Witness ==
    /\ pc = "error"
    /\ raised = "Rekognition job timed out"
    /\ polls = max_retries
    /\ slept = max_retries * POLL_DELAY

\* C18: one invocation writes the record at most once: EDITING, with the key
\* moments, their count, the title and the job id, only after the transcode job
\* was created, or ERROR only when no transcode job was created.
C18_AtMostOneWrite ==
    /\ Len(writes) <= 1
    /\ writes = <<"EDITING">> =>
           /\ job # None
           /\ video_record.status = "EDITING"
           /\ video_record.keyMoments = key_moments
           /\ video_record.keyMomentsCount = Len(key_moments)
           /\ video_record.title = smart_title
           /\ video_record.mediaConvertJobId = mediaconvert_job_id
    /\ writes = <<"ERROR">> =>
           /\ job = None
           /\ video_record.status = "ERROR"
    /\ pc = "editing" => writes = <<"EDITING">>

\* the ERROR write of an invocation whose transcode request was refused, after the
\* key moments and the captions were built
C18_Witness ==
    /\ pc = "error"
    /\ exc = "MediaConvert create_job failed"
    /\ writes = <<"ERROR">>
    /\ key_moments # <<>>
    /\ job = None

----------------------------------------------------------------------------
(* The status of one video across the Lambdas that write it:
   presigned-url, upload-complete, video-editor, consolidation and the two
   handlers of the MediaConvert job events.  Messages and events are delivered
   at least once. *)

MaxRedeliveries == 1

S3Upload == [kind |-> "s3_upload"]
Processing == [kind |-> "processing"]
TranscribeEvent(st) == [kind |-> "transcribe", status |-> st]
MediaConvertEvent(st, j, to) ==
    [kind |-> "mediaconvert", status |-> st, jobId |-> j, to |-> to]

Send(bag, m) == bag (+) SetToBag({m})
Consume(bag, m) == bag (-) SetToBag({m})

\* presigned-url/handler.py:86-95: the item starts as UPLOADING; the upload to S3
\* puts the event on the queue of upload-complete
InitPipeline ==
    /\ video_item = [status |-> "UPLOADING", mediaConvertJobId |-> 0]
    /\ pending = SetToBag({S3Upload})
    /\ sent = {S3Upload}
    /\ redeliveries = 0
    /\ transcription_job = "none"
    /\ mediaconvert_jobs = <<>>
    /\ video_duration_sec = 0
    /\ audio_highlights = <<>>
    /\ visual_highlights = <<>>
    /\ items = <<>>
    /\ IdleMerge /\ IdleSrt /\ IdleHandler /\ IdleExtract

offPipelineVars == <<inputVars, mergeVars, srtVars, handlerVars, invocationVars,
                     extractVars>>

\* a message or an event sent before is delivered once more (SQS and EventBridge
\* deliver at least once; upload-complete/handler.py:97, 101 re-raise to have the
\* message retried)
Redeliver ==
    /\ redeliveries < MaxRedeliveries
    /\ \E m \in sent : pending' = Send(pending, m)
    /\ redeliveries' = redeliveries + 1
    /\ UNCHANGED <<video_item, sent, transcription_job, mediaconvert_jobs,
                   offPipelineVars>>

\* upload-complete/handler.py:21-81
UploadComplete ==
    /\ BagIn(S3Upload, pending)
    /\ video_item' = [video_item EXCEPT !.status = "UPLOADED"]
    /\ pending' = Send(Consume(pending, S3Upload), Processing)
    /\ sent' = sent \cup {Processing}
    /\ UNCHANGED <<redeliveries, transcription_job, mediaconvert_jobs, offPipelineVars>>

\* video-editor/handler.py:78-116, 155-186: the transcription job named after the
\* video is started unless it exists
AnalysisStart ==
    /\ BagIn(Processing, pending)
    /\ transcription_job' = IF transcription_job = "none" THEN "IN_PROGRESS"
                            ELSE transcription_job
    /\ video_item' = [video_item EXCEPT !.status = "ANALYZING"]
    /\ pending' = Consume(pending, Processing)
    /\ UNCHANGED <<sent, redeliveries, mediaconvert_jobs, offPipelineVars>>

\* Transcribe ends the job and emits the state-change event
\* (consolidation/handler.py:47, 59-61)
TranscriptionEnds ==
    /\ transcription_job = "IN_PROGRESS"
    /\ \E st \in {"COMPLETED", "FAILED"} :
          /\ transcription_job' = st
          /\ pending' = Send(pending, TranscribeEvent(st))
          /\ sent' = sent \cup {TranscribeEvent(st)}
    /\ UNCHANGED <<video_item, redeliveries, mediaconvert_jobs, offPipelineVars>>

\* consolidation/handler.py:59-65
ConsolidationNotCompleted ==
    /\ BagIn(TranscribeEvent("FAILED"), pending)
    /\ pending' = Consume(pending, TranscribeEvent("FAILED"))
    /\ UNCHANGED <<video_item, sent, redeliveries, transcription_job, mediaconvert_jobs,
                   offPipelineVars>>

\* consolidation/handler.py:67-178, 210-218: an exception with video_id bound
ConsolidationError ==
    /\ BagIn(TranscribeEvent("COMPLETED"), pending)
    /\ pending' = Consume(pending, TranscribeEvent("COMPLETED"))
    /\ video_item' = [video_item EXCEPT !.status = "ERROR"]
    /\ UNCHANGED <<sent, redeliveries, transcription_job, mediaconvert_jobs,
                   offPipelineVars>>

\* consolidation/handler.py:67-208: the MediaConvert job is created and its id
\* stored with status EDITING
ConsolidationEditing ==
    /\ BagIn(TranscribeEvent("COMPLETED"), pending)
    /\ pending' = Consume(pending, TranscribeEvent("COMPLETED"))
    /\ mediaconvert_jobs' = Append(mediaconvert_jobs, "PROGRESSING")
    /\ video_item' = [status |-> "EDITING", mediaConvertJobId |-> Len(mediaconvert_jobs')]
    /\ UNCHANGED <<sent, redeliveries, transcription_job, offPipelineVars>>

MediaConvertHandlers == {"mediaconvert_completion_handler", "mediaconvert-complete"}

\* MediaConvert ends a job and emits the state-change event, which both handlers
\* receive (mediaconvert_completion_handler.py:18-20, mediaconvert-complete/handler.py:27)
MediaConvertEnds ==
    \E j \in 1..Len(mediaconvert_jobs) : \E st \in {"COMPLETE", "ERROR"} :
        /\ mediaconvert_jobs[j] = "PROGRESSING"
        /\ mediaconvert_jobs' = [mediaconvert_jobs EXCEPT ![j] = st]
        /\ pending' = pending (+) SetToBag({MediaConvertEvent(st, j, h) :
                                               h \in MediaConvertHandlers})
        /\ sent' = sent \cup {MediaConvertEvent(st, j, h) : h \in MediaConvertHandlers}
        /\ UNCHANGED <<video_item, redeliveries, transcription_job, offPipelineVars>>

\* the events of the pending bag addressed to handler h
EventsFor(h) ==
    {m \in BagToSet(pending) : m.kind = "mediaconvert" /\ m.to = h}

\* mediaconvert_completion_handler.py:26-34: no item holds the job id
CompletionVideoNotFound ==
    \E m \in EventsFor("mediaconvert_completion_handler") :
        /\ video_item.mediaConvertJobId # m.jobId
        /\ pending' = Consume(pending, m)
        /\ UNCHANGED <<video_item, sent, redeliveries, transcription_job,
                       mediaconvert_jobs, offPipelineVars>>

\* mediaconvert_completion_handler.py:41-71
CompletionEdited ==
    \E m \in EventsFor("mediaconvert_completion_handler") :
        /\ video_item.mediaConvertJobId = m.jobId
        /\ m.status = "COMPLETE"
        /\ video_item' = [video_item EXCEPT !.status = "EDITED"]
        /\ pending' = Consume(pending, m)
        /\ UNCHANGED <<sent, redeliveries, transcription_job, mediaconvert_jobs,
                       offPipelineVars>>

\* mediaconvert_completion_handler.py:76-89
CompletionError ==
    \E m \in EventsFor("mediaconvert_completion_handler") :
        /\ video_item.mediaConvertJobId = m.jobId
        /\ m.status = "ERROR"
        /\ video_item' = [video_item EXCEPT !.status = "ERROR"]
        /\ pending' = Consume(pending, m)
        /\ UNCHANGED <<sent, redeliveries, transcription_job, mediaconvert_jobs,
                       offPipelineVars>>

\* mediaconvert-complete/handler.py:27-32
MediaConvertCompleteIgnored ==
    \E m \in EventsFor("mediaconvert-complete") :
        /\ m.status # "COMPLETE"
        /\ pending' = Consume(pending, m)
        /\ UNCHANGED <<video_item, sent, redeliveries, transcription_job,
                       mediaconvert_jobs, offPipelineVars>>

\* mediaconvert-complete/handler.py:35-102: the video id is read from the job
MediaConvertCompleteCompleted ==
    \E m \in EventsFor("mediaconvert-complete") :
        /\ m.status = "COMPLETE"
        /\ video_item' = [video_item EXCEPT !.status = "COMPLETED"]
        /\ pending' = Consume(pending, m)
        /\ UNCHANGED <<sent, redeliveries, transcription_job, mediaconvert_jobs,
                       offPipelineVars>>

\* the Lambdas, each handling an event delivered to it
Handle ==
    \/ UploadComplete
    \/ AnalysisStart
    \/ ConsolidationNotCompleted
    \/ ConsolidationError
    \/ ConsolidationEditing
    \/ CompletionVideoNotFound
    \/ CompletionEdited
    \/ CompletionError
    \/ MediaConvertCompleteIgnored
    \/ MediaConvertCompleteCompleted

NextPipeline ==
    \/ Redeliver
    \/ UploadComplete
    \/ AnalysisStart
    \/ TranscriptionEnds
    \/ ConsolidationNotCompleted
    \/ ConsolidationError
    \/ ConsolidationEditing
    \/ MediaConvertEnds
    \/ CompletionVideoNotFound
    \/ CompletionEdited
    \/ CompletionError
    \/ MediaConvertCompleteIgnored
    \/ MediaConvertCompleteCompleted

SpecPipeline == InitPipeline /\ [][NextPipeline]_vars

\* every external job ends, and every event delivered is handled
FairSpecPipeline ==
    /\ SpecPipeline
    /\ WF_vars(TranscriptionEnds)
    /\ WF_vars(MediaConvertEnds)
    /\ WF_vars(Handle)

----------------------------------------------------------------------------
(* Properties of the status of a video, under SpecPipeline and FairSpecPipeline *)

Rank(st) ==
    CASE st = "UPLOADING" -> 0
      [] st = "UPLOADED" -> 1
      [] st = "ANALYZING" -> 2
      [] st = "EDITING" -> 3
      [] st \in {"EDITED", "COMPLETED", "ERROR"} -> 4

\* C19: under every interleaving and re-delivery of the events of one video the
\* status only moves forward, UPLOADING, UPLOADED, ANALYZING, EDITING, then
\* EDITED / COMPLETED (or ERROR), never back.
C19_StatusMonotone ==
    [][Rank(video_item'.status) >= Rank(video_item.status)]_vars

Terminal == video_item.status \in {"EDITED", "COMPLETED", "ERROR"}

\* C20: once the analysis jobs of a video were started, if every external job ends
\* and every completion event is delivered and handled, the status eventually is
\* EDITED, COMPLETED or ERROR: it does not stay ANALYZING or EDITING for ever.
C20_EventuallyTerminal ==
    [](transcription_job # "none" => <>Terminal)

----------------------------------------------------------------------------
(* Caption offsets against the clip ranges of the job, under Spec *)

\* the time a timecode HH:MM:SS:FF denotes (frames are always 00)
TimecodeTime(tc) == Sec(tc.hh * 3600 + tc.mm * 60 + tc.ss)

\* the value of current_output_time when the loop of handler.py:635-656 reaches
\* the k-th moment
OutputTimeAt(moments, k) == SumDur(SubSeq(moments, 1, k - 1))

\* the length of the clips 1..k-1 as the transcoder reads them
RECURSIVE ClippedTimeBefore(_, _)
ClippedTimeBefore(clippings, k) ==
    IF k <= 1 THEN 0
    ELSE ClippedTimeBefore(clippings, k - 1)
         + TimecodeTime(clippings[k - 1].EndTimecode)
         - TimecodeTime(clippings[k - 1].StartTimecode)

\* C21: for the key moments given to json_to_srt and to create_mediaconvert_job,
\* the edited-time offset of the beginning of the k-th moment equals the total
\* length of the clips 1..k-1 as their StartTimecode/EndTimecode pairs give it
C21_OffsetsMatchClips ==
    (pc \in {"job", "editing"} /\ ~srt_content.none) =>
        \A k \in 1..Len(key_moments) :
            OutputTimeAt(key_moments, k) = ClippedTimeBefore(job.InputClippings, k)

----------------------------------------------------------------------------
(* Properties of find_boundary and of the candidates of the extractors, under
   SpecExtract *)

\* item p is a punctuation item whose content is . ? or !
TerminalPunctuation(its, p) ==
    /\ Get(its[p], "type", "None") = "punctuation"
    /\ Get(Get(its[p], "alternatives", <<<<>>>>)[1], "content", <<>>)
           \in {<<".">>, <<"?">>, <<"!">>}

\* the terminal punctuation nearest to index in the direction of the scan, 0 when
\* there is none
NearestTerminal(its, index, direction) ==
    LET P == {p \in 1..Len(its) : /\ TerminalPunctuation(its, p)
                                  /\ IF direction = -1 THEN p < index ELSE p > index}
    IN IF P = {} THEN 0
       ELSE IF direction = -1 THEN CHOOSE p \in P : \A q \in P : q <= p
       ELSE CHOOSE p \in P : \A q \in P : p <= q

\* every pronunciation item from index to p lies within limit_sec of the reference
InsideWindow(its, index, p, ref, limit_sec) ==
    \A q \in Min(index, p)..Max(index, p) :
        Get(its[q], "type", "None") = "pronunciation"
            => Abs(Get(its[q], "start_time", 0) - ref) <= limit_sec

\* the result of find_boundary(index, direction, limit_sec) is the one stated:
\* the time of the item next to the nearest terminal punctuation, or none
BoundaryAsStated(its, index, direction, limit_sec) ==
    LET key == IF direction = -1 THEN "start_time" ELSE "end_time"
        r == find_boundary(its, index, direction, limit_sec)
        p == NearestTerminal(its, index, direction)
    IN IF key \in DOMAIN its[index] /\ p # 0
          /\ InsideWindow(its, index, p, its[index][key], limit_sec)
       THEN /\ r.kind = "time"
            /\ key \in DOMAIN its[p - direction]
            /\ r.t = its[p - direction][key]
       ELSE r = NoBoundary

\* the loop of extract_audio_highlights is at a pronunciation item with a keyword
AtKeywordItem ==
    /\ x_pc = "audio"
    /\ x_i <= Len(items)
    /\ Get(items[x_i], "type", "None") = "pronunciation"
    /\ "alternatives" \in DOMAIN items[x_i]
    /\ ~FirstKeyword(Lower(Get(items[x_i].alternatives[1], "content", <<>>))).none

\* C23: find_boundary scanning backward returns the start time of the item right
\* after the nearest terminal punctuation below index, scanning forward the end
\* time of the item right before the nearest terminal punctuation above index,
\* when no pronunciation item scanned up to that punctuation is more than limit
\* seconds from the reference time; in every other case it returns none.
C23_BoundaryAsStated ==
    AtKeywordItem =>
        /\ BoundaryAsStated(items, x_i, -1, LOOK_LIMIT)
        /\ BoundaryAsStated(items, x_i, 1, LOOK_LIMIT)

\* the lowercased text of pronunciation item i
LoweredText(its, i) == Lower(Get(its[i].alternatives[1], "content", <<>>))

\* the pronunciation items whose lowercased text contains a keyword of the table
KeywordItems(its) ==
    {i \in 1..Len(its) :
        /\ its[i].type = "pronunciation"
        /\ \E n \in 1..Len(EXCITEMENT_KEYWORDS) :
               KeywordIn(EXCITEMENT_KEYWORDS[n].k, LoweredText(its, i))}

\* the n-th element of a set of positions, in ascending order
NthOf(S, n) == CHOOSE i \in S : Cardinality({j \in S : j <= i}) = n

\* score is the weight of the first keyword of the table found in item i, times
\* the confidence of the item
ScoreOfFirstKeyword(its, i, score) ==
    \E n \in 1..Len(EXCITEMENT_KEYWORDS) :
        /\ KeywordIn(EXCITEMENT_KEYWORDS[n].k, LoweredText(its, i))
        /\ \A m \in 1..(n - 1) : ~KeywordIn(EXCITEMENT_KEYWORDS[m].k, LoweredText(its, i))
        /\ score = EXCITEMENT_KEYWORDS[n].s
                       * Get(its[i].alternatives[1], "confidence", DEFAULT_CONFIDENCE)

AudioReturned == x_pc = "done" /\ rekognition_results = <<>>

\* C24: on a transcript whose pronunciation items carry their keys,
\* extract_audio_highlights returns exactly one candidate for each
\* pronunciation item whose lowercased text contains a keyword of the table, in
\* the order of the items, and none for any other item; the score of the candidate
\* is the weight of the first matching keyword in table order times the
\* confidence of the word.
C24_OneCandidatePerKeywordItem ==
    (AudioReturned /\ WellFormedTranscript(items)) =>
        /\ Len(audio_highlights) = Cardinality(KeywordItems(items))
        /\ \A n \in 1..Len(audio_highlights) :
               n <= Cardinality(KeywordItems(items)) =>
                   ScoreOfFirstKeyword(items, NthOf(KeywordItems(items), n),
                                       audio_highlights[n].score)

\* the snap result in one direction, or the fallback when there is none
SnapOr(its, i, direction, fallback) ==
    LET r == find_boundary(its, i, direction, LOOK_LIMIT)
    IN IF r.kind = "time" THEN r.t ELSE fallback

\* the loop of extract_audio_highlights appends a candidate for item x_i
CandidateAppended == x_pc = "audio" /\ Len(highlights') = Len(highlights) + 1

\* the word 'goal' at 42.0-42.4 with confidence 0.9
IsGoalAt42(item) ==
    item = XWord(<<"g", "o", "a", "l">>, Sec(42), Sec(42) + 4, 90)

\* C25: the candidate of a keyword hit with word times [rawStart, rawEnd] is
\* [max(0, s - 0.3), e + 0.3], s being the backward snap result or else
\* max(0, rawStart - 3) and e the forward snap result or else rawEnd + 3; the
\* word 'goal' at 42.0-42.4 with confidence 0.9 and no terminal punctuation within
\* 30 s gives start 38.7, end 45.7, score 0.855; and the candidate contains
\* [rawStart, rawEnd].
C25_CandidateExtent ==
    [][CandidateAppended =>
          LET item == items[x_i]
              c == highlights'[Len(highlights')]
              s == SnapOr(items, x_i, -1, Max(0, item.start_time - Sec(3)))
              e == SnapOr(items, x_i, 1, item.end_time + Sec(3))
          IN /\ c.start = Max(0, s - 3)
             /\ c.end = e + 3
             /\ c.start <= item.start_time
             /\ item.end_time <= c.end
             /\ (/\ IsGoalAt42(item)
                 /\ NearestTerminal(items, x_i, -1) = 0
                 /\ NearestTerminal(items, x_i, 1) = 0)
                    => c = [start |-> 387, end |-> 457, score |-> 8550]]_vars

\* a run that gave a sentence-snapped candidate and then the candidate of 'goal'
\* at 42.0-42.4 from the two fallbacks
C25_Witness ==
    /\ x_pc = "done"
    /\ ~x_raised
    /\ Len(audio_highlights) >= 2
    /\ audio_highlights[Len(audio_highlights)] = [start |-> 387, end |-> 457, score |-> 8550]
    /\ \E n \in 1..(Len(audio_highlights) - 1), i \in 1..Len(items) :
          /\ items[i].type = "pronunciation"
          /\ find_boundary(items, i, -1, LOOK_LIMIT).kind = "time"
          /\ audio_highlights[n].start = find_boundary(items, i, -1, LOOK_LIMIT).t - 3

\* every label detection carries its name, its confidence and its timestamp
WellFormedLabels(labels) == \A n \in 1..Len(labels) : ~LabelRaises(labels[n])

\* the detections of second s with confidence > 65
Surviving(labels, s) ==
    {n \in 1..Len(labels) : /\ labels[n].Label.Confidence > 65
                            /\ labels[n].Timestamp \div 1000 = s}

\* maxBaseScore + min(0.3, 0.05 x distinctLabelCount) of second s, in hundredths
BucketScore(labels, s) ==
    LET base == {BaseScore(labels[n].Label.Name) : n \in Surviving(labels, s)}
        distinct == {labels[n].Label.Name : n \in Surviving(labels, s)}
    IN (CHOOSE b \in base : \A c \in base : c <= b) + Min(30, 5 * Cardinality(distinct))

\* the seconds that give a candidate
EmittingSeconds(labels) ==
    {s \in {labels[n].Timestamp \div 1000 : n \in 1..Len(labels)} :
        Surviving(labels, s) # {} /\ BucketScore(labels, s) > 40}

VisualReturned == x_pc = "done" /\ items = <<>>

----------------------------------------------------------------------------
(* The caption chunks of json_to_srt, under SpecSrt *)

\* the texts of the entries, one after the other
RECURSIVE EntryTexts(_)
EntryTexts(entries) ==
    IF entries = <<>> THEN <<>> ELSE Head(entries).text \o EntryTexts(Tail(entries))

\* the chunk loop closes an entry at the mapped word it is at
EntryClosed == srt_pc = "chunk" /\ Len(srt_entries') = Len(srt_entries) + 1

\* (the words of a transcript have distinct start times, so two mapped words never
\* compare equal and `word == mapped_words[-1]' holds at the last word only)
\* the rule for the word the loop is at: the entry holds 5 words with it, or
\* reaches 3.0 s from its first word to the end of this word, or the word is the
\* last mapped word
MustClose ==
    LET word == mapped_words[word_idx]
        first == IF current_chunk = <<>> THEN word.start ELSE chunk_start
    IN \/ Len(current_chunk) + 1 = 5
       \/ word.end - first >= Sec(3)
       \/ word_idx = Len(mapped_words)

----------------------------------------------------------------------------
(* The augmentation pass of consolidation_handler, under Spec *)

\* handler.py:127-134 has run in this step
Augmented == pc = "refused" /\ pc' = "final" /\ calls'.fallback = calls.fallback + 1

\* C28: when the re-fused total is below 15 s and the fallback clips are added to
\* the moments and fused again, the total duration of the key moments after the
\* augmentation is not smaller than before it.
C28_AugmentationNeverShrinks ==
    [][Augmented => SumDur(key_moments') >= SumDur(key_moments)]_vars

\* C29: for the key moments (start < end) that consolidation_handler passes to
\* create_mediaconvert_job, every clip range has a StartTimecode strictly before
\* its EndTimecode, and the clip ranges of consecutive key moments do not overlap
\* as timecodes.
C29_ClipRangesOrdered ==
    (pc \in {"job", "editing"} /\ \A k \in 1..Len(key_moments) :
                                      key_moments[k].start < key_moments[k].end) =>
        /\ \A k \in 1..Len(job.InputClippings) :
               TimecodeTime(job.InputClippings[k].StartTimecode)
                   < TimecodeTime(job.InputClippings[k].EndTimecode)
        /\ \A k \in 1..(Len(job.InputClippings) - 1) :
               TimecodeTime(job.InputClippings[k].EndTimecode)
                   <= TimecodeTime(job.InputClippings[k + 1].StartTimecode)

----------------------------------------------------------------------------
(* Words against the key moments of the fuser, under SpecSrt *)

\* the key moments that contain the start of word w
MomentsHolding(w) ==
    {k \in 1..Len(srt_moments) : /\ srt_moments[k].start <= w.start
                                 /\ w.start < srt_moments[k].end}

\* the loop over the moments (handler.py:635-656) is over
MappingOver == srt_pc = "chunk" \/ (srt_pc = "map" /\ moment_idx > Len(srt_moments))

\* C30: on a key-moment list the fuser returns, json_to_srt maps each word of the
\* transcript to at most one caption position: no word start lies inside two key
\* moments, and there are as many mapped words as words inside a moment.
C30_WordMappedOnce ==
    MappingOver =>
        /\ \A i \in 1..Len(words) : Cardinality(MomentsHolding(words[i])) <= 1
        /\ Len(mapped_words) = Cardinality({i \in 1..Len(words) : MomentsHolding(words[i]) # {}})

====
